---------------------------- MODULE Spec2Model ----------------------------
(***************************************************************************)
(* Process Supervisor and Recording Finalizer of the camera viewer          *)
(* (src-tauri/src/stream.rs, lib.rs, scheduler.rs, commands.rs).            *)
(*                                                                         *)
(* Every facade command and every fired scheduler closure is a task that   *)
(* runs on a parallel thread pool.  A task advances one step at a time; a  *)
(* step is one hold of a std::sync::Mutex (the streams map or the          *)
(* recording map), one SQL statement or transaction, one filesystem call   *)
(* or one run of the transcoder.  Steps of different tasks interleave      *)
(* freely; nothing but the two map mutexes serialises them.                *)
(***************************************************************************)
EXTENDS Integers, FiniteSets, Sequences, TLC

\* ------------------------------------------------------------------ bounds
NumTasks == 2   \* tasks (commands, scheduler closures) in flight at once
MaxCalls == 3   \* commands invoked and job closures fired in one run

\* One second of Utc::now() holds this many clock ticks: start_time keeps the
\* sub-second digits (to_rfc3339), the final file name keeps seconds only.
TicksPerSecond == 2

MaxSchedules == 2   \* rows the recording_schedules table ever gets
MaxFields == 7      \* whitespace-separated fields of a cron expression
MaxOps == 2         \* plugin operations called in one run
MaxSelections == 2  \* encoder selections made in one run
MaxAddresses == 4   \* addresses discover_devices scans (254 in the code)
CONCURRENCY_LIMIT == 2   \* probes in flight at once (50 in the code)

Cameras  == {1, 2}
Tasks    == 1..NumTasks
Handles  == 1..MaxCalls   \* a call spawns at most one child
NoChild  == 0
NoRow    == 0
Null     == <<"NULL">>
ScheduleIds == 1..MaxSchedules
NoJob    == 0
None     == <<>>          \* Option::None
Some(x)  == <<x>>         \* Option::Some(x)

VARIABLES
    processes,            \* AppState.processes: camera id -> stream child
    recording_processes,  \* AppState.recording_processes: camera id -> child
    children,             \* every transcoder child of this run, by handle
    recordings,           \* rows of the recordings table
    last_rowid,           \* AUTOINCREMENT counter of recordings.id
    files,                \* files present in recording_dir
    clock,                \* Utc::now(), in ticks
    tasks,                \* program counter and locals of every task
    calls,                \* commands invoked and closures fired so far
    window,               \* "open" until the CloseRequested handler has run
    recording_schedules,  \* rows of the recording_schedules table
    last_schedule_id,     \* AUTOINCREMENT counter of recording_schedules.id
    engine,               \* SchedulerManager.scheduler: the registered jobs
    last_job,             \* job guids handed out so far
    job_map,              \* SchedulerManager.job_map: schedule id -> guid
    stasks,               \* program counter and locals of schedule commands
    loader,               \* the startup task that loads enabled schedules
    plugin_log,           \* the plugin operations called, with their results
    network,              \* requests sent to cameras so far
    settings,             \* the encoder_settings row
    capabilities,         \* GpuCapabilities.availableEncoders
    selections,           \* the encoder selections made, with their inputs
    thumbnails_dir,       \* whether recording_dir/thumbnails can be created
    cameras,              \* rows of the cameras table, by id
    requests,             \* the SOAP requests sent to cameras so far
    etasks,               \* program counter and locals of settings commands
    probe,                \* the startup task init_gpu_encoder_settings
    discovery,            \* the one discover_devices call and its probes
    held,                 \* the owner of each of the four mutexes
    threads               \* the lock operations each thread has still to do

\* The supervisor's state, which no schedule command touches.
supervisorVars == <<processes, recording_processes, children, recordings,
                    last_rowid, files, clock, tasks, window>>

\* The schedule manager's state.
schedVars == <<recording_schedules, last_schedule_id, engine, last_job,
               job_map, stasks, loader>>

\* The camera plugins' and the encoder selector's state.
pureVars == <<plugin_log, network, settings, capabilities, selections>>

\* The tasks that write the encoder_settings row.
settingsVars == <<etasks, probe>>

\* The mutexes of AppState and SchedulerManager, seen one lock operation
\* at a time.
lockVars == <<held, threads>>

\* The host's file system, the cameras table, the wire to the cameras and
\* the tasks that no supervisor, schedule, plugin or selector step touches.
hostVars == <<thumbnails_dir, cameras, requests, settingsVars, discovery,
              lockVars>>

vars == <<processes, recording_processes, children, recordings, last_rowid,
          files, clock, tasks, calls, window, schedVars, pureVars, hostVars>>

\* ------------------------------------------------------------ pure helpers
\* format!("streams/{}/index.m3u8", id)
PlaylistPath(id) == <<"streams", id, "index.m3u8">>

\* format!("temp_rec_{}.ts", id)
TempName(id) == <<"temp_rec", id, "ts">>

\* start_time.format("%Y%m%d_%H%M%S"): the sub-second part is dropped
FormatSeconds(t) == t \div TicksPerSecond

\* format!("rec_{}_{}.mp4", id, start_time.format(..))
FinalName(id, start_time) == <<"rec", id, FormatSeconds(start_time), "mp4">>

\* final_filename.replace(".mp4", ".jpg")
ThumbnailName(final) == <<final[1], final[2], final[3], "jpg">>

\* ------------------------------------------------------ cron expressions
\* A cron expression is a string over the characters " " (whitespace),
\* "0" and "*" (fields the cron parser takes) and "x" (a field it refuses).

\* str.split_whitespace(): the maximal runs without whitespace, in order.
RECURSIVE SplitWhitespace(_)
SplitWhitespace(str) ==
    IF str = <<>> THEN <<>>
    ELSE IF Head(str) = " " THEN SplitWhitespace(Tail(str))
    ELSE LET rest == SplitWhitespace(Tail(str))
         IN  IF Len(str) > 1 /\ str[2] # " "
               THEN <<(<<Head(str)>> \o Head(rest))>> \o Tail(rest)
               ELSE <<(<<Head(str)>>)>> \o rest

\* Job::new_async_tz(expr, Tokyo, ..).is_ok(): the parser of the cron engine
\* takes six fields (seconds first), or seven with a year.
Parses(str) ==
    LET fields == SplitWhitespace(str)
    IN  /\ Len(fields) \in {6, 7}
        /\ \A i \in 1..Len(fields) : fields[i] \in {<<"0">>, <<"*">>}

\* A faulty variant of validate_cron_expression: the expression is checked
\* with the seconds field in front but returned as it came.
validate_cron_verbatim(expr) ==
    LET normalized_expr == IF Len(SplitWhitespace(expr)) = 5
                             THEN <<"0", " ">> \o expr
                             ELSE expr
    IN  IF Parses(normalized_expr)
          THEN [ok |-> TRUE, value |-> expr]
          ELSE [ok |-> FALSE, value |-> Null]

\* commands.rs 446-462: Ok(normalized) or Err.
validate_cron_expression(expr) ==
    LET normalized_expr == IF Len(SplitWhitespace(expr)) = 5
                             THEN <<"0", " ">> \o expr
                             ELSE expr
    IN  IF Parses(normalized_expr)
          THEN [ok |-> TRUE, value |-> normalized_expr]
          ELSE [ok |-> FALSE, value |-> Null]

\* The expression of n single-character fields, the k-th of them one the
\* parser refuses (none when k = 0), after a leading blank when lead.
RECURSIVE CronText(_, _, _)
CronText(n, k, lead) ==
    IF lead THEN <<" ">> \o CronText(n, k, FALSE)
    ELSE IF n = 0 THEN <<>>
    ELSE IF n = 1 THEN <<(IF k = 1 THEN "x" ELSE "*")>>
    ELSE CronText(n - 1, k, FALSE) \o <<" ", (IF k = n THEN "x" ELSE "*")>>

\* The expressions the UI may send: up to MaxFields fields, all of them
\* taken by the parser or the last one refused.
CronInputs ==
    {CronText(n, IF bad THEN n ELSE 0, lead) :
        n \in 0..MaxFields, bad \in BOOLEAN, lead \in BOOLEAN}

\* validate_cron_expression, tabulated over the expressions the UI may send.
Validated == [e \in CronInputs |-> validate_cron_expression(e)]

Unborn == [kind |-> "none", cam |-> 0, st |-> "unborn"]
Reaped == [kind |-> "none", cam |-> 0, st |-> "reaped"]

\* The handle the next Command::spawn() yields (handles are never reused).
NextHandle == 1 + Cardinality({h \in Handles : children[h].st # "unborn"})

\* The child process exists and has not been waited for.
Running(h) == h \in Handles /\ children[h].st \in {"spawned", "writing"}

\* A faulty variant of Reap: the child is neither killed nor waited for.
ReapNothing(h) == children

\* child.kill(); child.wait()
Reap(h) == [children EXCEPT ![h] = Reaped]

\* Command::new("ffmpeg").spawn() succeeded
Spawn(k, id) ==
    [children EXCEPT ![NextHandle] = [kind |-> k, cam |-> id, st |-> "spawned"]]

\* A free task slot.  The locals of the running call are: h, the child it
\* spawned or took out of a map (h2: the recording child stop_stream took);
\* rid, fname and stime, the row it inserted or selected; final and thumb,
\* the names the finalizer composed; ret and val, its result.  own is not a
\* local of the code: it records, for a job closure, the child its
\* start_recording spawned.  sync_camera_time has was, its was_streaming,
\* and restart, what became of its start_stream; reply is the camera's
\* answer to the last request of an ONVIF command.
Idle == [op |-> "idle", pc |-> "idle", cam |-> 0, h |-> NoChild,
         h2 |-> NoChild, own |-> NoChild, rid |-> NoRow, fname |-> Null, stime |-> 0,
         final |-> Null, thumb |-> Null, ret |-> "none", val |-> Null,
         was |-> FALSE, restart |-> "none",
         reply |-> [status |-> 0, body |-> "none"]]

\* SELECT .. WHERE camera_id = ?1 AND is_finished = 0
Unfinished(id) == {r \in recordings : r.camera_id = id /\ ~r.is_finished}

\* .. ORDER BY start_time DESC LIMIT 1
Youngest(rows) == CHOOSE r \in rows : \A q \in rows : q.start_time <= r.start_time

\* A row of recording_schedules as the UI creates it: one minute long, with
\* no fps of its own (name and the two timestamps decide nothing here).
ScheduleRow(id, camera_id, cron_expression, is_enabled) ==
    [id |-> id, camera_id |-> camera_id,
     cron_expression |-> cron_expression, is_enabled |-> is_enabled,
     duration_minutes |-> 1, fps |-> None]

\* scheduler.rs 34-48: the job built from a schedule.  Its closure captures
\* camera_id, duration and fps by value and the engine keeps cron_expr;
\* guid is job.guid() (76).
Job(guid, schedule) ==
    [guid |-> guid, schedule_id |-> schedule.id,
     camera_id |-> schedule.camera_id,
     cron_expression |-> schedule.cron_expression,
     duration |-> schedule.duration_minutes, fps |-> schedule.fps]

\* The cron expression of the rows that were there before this run.
StoredCron == validate_cron_expression(CronText(5, 0, FALSE)).value

\* No schedule command runs in the slot.  Its locals are: id, the schedule;
\* expr, the expression it was called with; cron, that expression once
\* validated; enabled, duration and fps, the is_enabled, duration_minutes
\* and fps of `updates`; rearm, whether the update reaches the scheduler;
\* old_enabled and row, what it read.
SIdle == [op |-> "idle", pc |-> "idle", id |-> 0, expr |-> Null,
          cron |-> Null, enabled |-> "unset", duration |-> None, fps |-> None,
          rearm |-> FALSE, old_enabled |-> FALSE,
          row |-> Null, ret |-> "none"]

\* db.rs 56-61: the encoder_settings row as first inserted.
DefaultSettings ==
    [encoderMode |-> "Auto", gpuEncoder |-> None, cpuEncoder |-> "libx264",
     preset |-> "ultrafast", quality |-> 23]

\* No plugin operation was called and no encoder selected.
PluginsQuiet ==
    /\ plugin_log = <<>>
    /\ network = 0

SelectorQuiet ==
    /\ settings = DefaultSettings
    /\ capabilities = [availableEncoders |-> {}]
    /\ selections = <<>>

\* db.rs 13-27: a row of the cameras table (name, host, port, stream_path
\* and the two timestamps decide nothing here).
CameraRow(camera_type, user, pass, xaddr) ==
    [camera_type |-> camera_type, user |-> user, pass |-> pass, xaddr |-> xaddr]

\* No row of the cameras table has the id.
NoCamera == [camera_type |-> "absent", user |-> None, pass |-> None, xaddr |-> None]

\* Every camera is an ONVIF camera with credentials and nothing was sent.
WireQuiet ==
    /\ cameras = [c \in Cameras |->
                    CameraRow("onvif", Some("admin"), Some("secret"), Some("xaddr"))]
    /\ requests = {}

\* No settings command runs.  Its locals are: patch, the
\* UpdateEncoderSettings it was called with; todo, the fields whose UPDATE
\* is still to run; val, the row it read.
EIdle ==
    [op |-> "idle", pc |-> "idle",
     patch |-> [encoderMode |-> None, gpuEncoder |-> None, cpuEncoder |-> None,
                preset |-> None, quality |-> None],
     todo |-> <<>>, ret |-> "none", val |-> DefaultSettings]

\* No settings command runs and the startup probe is over.
SettingsQuiet ==
    /\ etasks = [t \in Tasks |-> EIdle]
    /\ probe = [pc |-> "done", preferred |-> None]

\* discover_devices is not running.
DiscoveryQuiet ==
    discovery = [pc |-> "idle", launched |-> 0, in_flight |-> {},
                 probes |-> <<>>, results |-> <<>>, devices |-> <<>>,
                 ret |-> "none"]

\* lib.rs 26-28, scheduler.rs 10: the two std::sync::Mutex of the process
\* maps and the two tokio::sync::Mutex of the scheduler and its job map.
Mutexes == {"processes", "recording_processes", "scheduler", "job_map"}

\* No thread runs and no mutex is held.  A thread has op, the operation it
\* runs, and todo, the lock operations and the work it has still to do.
LockQuiet ==
    /\ held = [m \in Mutexes |-> 0]
    /\ threads = [t \in Tasks |-> [op |-> "idle", todo |-> <<>>]]

\* The thumbnails directory can be made as well, and nothing else runs.
HostQuiet ==
    /\ thumbnails_dir = "creatable"
    /\ WireQuiet
    /\ SettingsQuiet
    /\ DiscoveryQuiet
    /\ LockQuiet

\* Nothing of the schedule manager moves and no job is registered.
SchedulerQuiet ==
    /\ stasks = [t \in Tasks |-> SIdle]
    /\ loader = [pc |-> "done", rows |-> {}]

\* The state once the startup loader has registered one enabled schedule
\* for every camera.
SchedulesLoaded ==
    /\ recording_schedules = {ScheduleRow(c, c, StoredCron, TRUE) : c \in Cameras}
    /\ last_schedule_id = Cardinality(Cameras)
    /\ engine = {Job(c, ScheduleRow(c, c, StoredCron, TRUE)) : c \in Cameras}
    /\ last_job = Cardinality(Cameras)
    /\ job_map = [sid \in ScheduleIds |-> IF sid \in Cameras THEN sid ELSE NoJob]
    /\ SchedulerQuiet

TypeOK ==
    /\ processes \in [Cameras -> Handles \cup {NoChild}]
    /\ recording_processes \in [Cameras -> Handles \cup {NoChild}]
    /\ \A h \in Handles :
          children[h].st \in {"unborn", "spawned", "writing", "exited",
                               "reaped"}
    /\ last_rowid \in 0..MaxCalls
    /\ clock \in 0..(MaxCalls + TicksPerSecond)
    /\ calls \in 0..MaxCalls
    /\ window \in {"open", "closed"}
    /\ \A t \in Tasks : tasks[t].cam \in Cameras \cup {0}

SupervisorInit ==
    /\ processes = [c \in Cameras |-> NoChild]
    /\ recording_processes = [c \in Cameras |-> NoChild]
    /\ children = [h \in Handles |-> Unborn]
    /\ recordings = {}
    /\ last_rowid = 0
    /\ files = {}
    /\ clock = 0
    /\ tasks = [t \in Tasks |-> Idle]
    /\ calls = 0
    /\ window = "open"

\* The supervisor as constructed, with the schedules of every camera loaded.
Init ==
    SupervisorInit /\ SchedulesLoaded /\ PluginsQuiet /\ SelectorQuiet /\ HostQuiet

\* A task returns: the result is in the slot until Return hands it over.
Done(t, o, id, result, value) ==
    [tasks EXCEPT ![t] = [tasks[t] EXCEPT !.op = o, !.cam = id, !.pc = "done",
                                          !.ret = result, !.val = value]]

\* The task goes on with the next step of operation o on camera id.
Goto(t, o, id, label, locals) ==
    [tasks EXCEPT ![t] = [x \in DOMAIN Idle |->
                            IF x \in DOMAIN locals THEN locals[x]
                            ELSE IF x = "op" THEN o
                            ELSE IF x = "cam" THEN id
                            ELSE IF x = "pc" THEN label
                            ELSE tasks[t][x]]]

\* ------------------------------------------------------------ invocation
\* No call runs in task slot t.
Free(t) == tasks[t].pc = "idle"

\* Handing a result over touches nothing but the task's own slot, so it
\* is taken before any other step.
Delivered ==
    /\ \A t \in Tasks : tasks[t].pc # "done"
    /\ \A t \in Tasks : stasks[t].pc # "done"

\* The call in slot t is about to take the step at label.
At(t, label) == Delivered /\ tasks[t].pc = label

\* The UI invokes a facade command or the cron engine fires a job closure:
\* the call takes the lowest free slot (slots are interchangeable).  A call
\* starts with its first step; being invoked touches nothing shared.
\* Cameras are interchangeable too: the first call of a run is for camera
\* 1.
Invoke(t, id) ==
    /\ Delivered
    /\ id <= calls + 1
    /\ window = "open"
    /\ calls < MaxCalls
    /\ calls' = calls + 1
    /\ Free(t)
    /\ \A u \in Tasks : u < t => ~Free(u)

\* The result reaches the caller (the UI, or the job closure's log line).
Return(t) ==
    /\ tasks[t].pc = "done"
    /\ tasks' = [tasks EXCEPT ![t] = Idle]
    /\ UNCHANGED <<schedVars, pureVars, hostVars>>
    /\ UNCHANGED <<processes, recording_processes, children, recordings,
                   last_rowid, files, clock, calls, window>>

\* ---------------------------------------------------------- start_stream
\* A faulty variant of StreamPresent: the check never finds the entry.
StreamNeverPresent(id) == FALSE

\* processes.contains_key(&id)
StreamPresent(id) == processes[id] # NoChild

\* stream.rs 54-192.  The presence check is one hold of the streams mutex
\* (57-63).  When the camera has no entry the lock is released and the
\* segment directory, the input URL and the encoder are prepared and the
\* transcoder is spawned (65-192); any of these may fail.  Nothing another
\* task does can tell a task that has passed the check from one that has
\* also spawned, so the two are one step.
StartStream(t, id) ==
    /\ Invoke(t, id)
    /\ IF StreamPresent(id)
         THEN /\ tasks' = Done(t, "start_stream", id, "ok", PlaylistPath(id))
              /\ UNCHANGED children
         ELSE \E outcome \in {"prepare_failed", "spawn_failed", "spawned"} :
                IF outcome = "spawned"
                  THEN /\ children' = Spawn("stream", id)
                       /\ tasks' = Goto(t, "start_stream", id, "ss_insert",
                                        [h |-> NextHandle])
                  ELSE /\ tasks' = Done(t, "start_stream", id, outcome, Null)
                       /\ UNCHANGED children
    /\ UNCHANGED <<schedVars, pureVars, hostVars>>
    /\ UNCHANGED <<processes, recording_processes, recordings, last_rowid,
                   files, clock, window>>

\* stream.rs 194-200: HashMap::insert under a second hold of the mutex; a
\* handle already stored for the camera is replaced and dropped, and
\* dropping a std::process::Child neither kills nor waits for it.
StartStreamInsert(t) ==
    /\ At(t, "ss_insert")
    /\ processes' = [processes EXCEPT ![tasks[t].cam] = tasks[t].h]
    /\ tasks' = Done(t, "start_stream", tasks[t].cam, "ok",
                     PlaylistPath(tasks[t].cam))
    /\ UNCHANGED <<schedVars, pureVars, hostVars>>
    /\ UNCHANGED <<recording_processes, children, recordings, last_rowid,
                   files, clock, calls, window>>

\* ----------------------------------------------------------- stop_stream
\* stream.rs 203-243: remove, kill and wait under the streams mutex.
StopStream(t, id) ==
    /\ Invoke(t, id)
    /\ LET h == processes[id]
       IN  /\ processes' = [processes EXCEPT ![id] = NoChild]
           /\ children' = IF h # NoChild THEN Reap(h) ELSE children
           /\ tasks' = Goto(t, "stop_stream", id, "st_rec", [h |-> h])
    /\ UNCHANGED <<schedVars, pureVars, hostVars>>
    /\ UNCHANGED <<recording_processes, recordings, last_rowid, files,
                   clock, window>>

\* stream.rs 245-274: under the recording mutex; the DELETE runs only when
\* a recording handle was found.  The DELETE is folded into this step: the
\* map part commutes with every statement another task can run meanwhile.
StopStreamRecording(t) ==
    /\ At(t, "st_rec")
    /\ LET id == tasks[t].cam
           h  == recording_processes[id]
       IN  /\ recording_processes' = [recording_processes EXCEPT ![id] = NoChild]
           /\ children' = IF h # NoChild THEN Reap(h) ELSE children
           /\ recordings' = IF h # NoChild
                              THEN recordings \ Unfinished(id)
                              ELSE recordings
           /\ tasks' = [Done(t, "stop_stream", id, "ok", Null) EXCEPT ![t].h2 = h]
    /\ UNCHANGED <<schedVars, pureVars, hostVars>>
    /\ UNCHANGED <<processes, last_rowid, files, clock, calls, window>>

\* ------------------------------------------------------- start_recording
\* A faulty variant of RecordingPresent: the check never finds the entry.
RecordingNeverPresent(id) == FALSE

\* processes.contains_key(&id), on the recording map
RecordingPresent(id) == recording_processes[id] # NoChild

\* A faulty variant of PendingRow: the row is inserted as finished.
PendingRowFinished(id, now, h) ==
    [id |-> last_rowid + 1, camera_id |-> id, filename |-> TempName(id),
     thumbnail |-> Null, start_time |-> now, end_time |-> Null,
     is_finished |-> TRUE, child |-> h]

\* The row start_recording inserts.  "child" is not a column: it records
\* which spawn the row was written for.
PendingRow(id, now, h) ==
    [id |-> last_rowid + 1, camera_id |-> id, filename |-> TempName(id),
     thumbnail |-> Null, start_time |-> now, end_time |-> Null,
     is_finished |-> FALSE, child |-> h]

\* A faulty variant of FailsEarly: the row is written before the spawn, and
\* stays when the call fails.
FailsEarlyLeavingRow(t, o, id, outcome) ==
    /\ tasks' = Done(t, o, id, outcome, Null)
    /\ recordings' = recordings \cup {PendingRow(id, clock, NoChild)}
    /\ UNCHANGED <<children, last_rowid, clock>>

\* An early return with `?` before anything was spawned or written.
FailsEarly(t, o, id, outcome) ==
    /\ tasks' = Done(t, o, id, outcome, Null)
    /\ UNCHANGED <<children, recordings, last_rowid, clock>>

\* stream.rs 295-476, entered from the command (commands.rs 119-126) or
\* from a fired job closure (scheduler.rs 50-62, 111-124).  The fail-fast
\* check is one hold of the recording mutex (304-310).  Then, with no lock
\* held, the camera row, the input URL and the encoder are fetched and the
\* transcoder is spawned (312-476); any of these may fail.  One step, as in
\* start_stream.
StartRecording(t, o, id) ==
    /\ Invoke(t, id)
    /\ IF RecordingPresent(id)
         THEN FailsEarly(t, o, id, "already_recording")
         ELSE \E outcome \in {"prepare_failed", "spawn_failed", "spawned"} :
                IF outcome = "spawned"
                  THEN /\ children' = Spawn("recording", id)
                       /\ tasks' = Goto(t, o, id, "sr_db", [h |-> NextHandle])
                       /\ UNCHANGED <<recordings, last_rowid, clock>>
                  ELSE FailsEarly(t, o, id, outcome)
    /\ UNCHANGED <<schedVars, pureVars, hostVars>>
    /\ UNCHANGED <<processes, recording_processes, files, window>>

\* stream.rs 478-494: open, INSERT and commit in one transaction; Utc::now()
\* is read for start_time.  When any of them fails the function returns with
\* `?`; the spawned child is dropped without kill or wait.
StartRecordingRow(t) ==
    /\ At(t, "sr_db")
    /\ \E outcome \in {"db_failed", "committed"} :
         IF outcome = "committed"
           THEN /\ recordings' = recordings \cup
                                   {PendingRow(tasks[t].cam, clock + 1, tasks[t].h)}
                /\ clock' = clock + 1
                /\ last_rowid' = last_rowid + 1
                /\ tasks' = Goto(t, tasks[t].op, tasks[t].cam, "sr_insert",
                                 [rid |-> last_rowid + 1])
           ELSE /\ tasks' = Done(t, tasks[t].op, tasks[t].cam, outcome, Null)
                /\ UNCHANGED <<recordings, last_rowid, clock>>
    /\ UNCHANGED <<schedVars, pureVars, hostVars>>
    /\ UNCHANGED <<processes, recording_processes, children, files, calls,
                   window>>

\* stream.rs 496-502: HashMap::insert under a second hold of the mutex.  A
\* job closure goes on to its sleep (scheduler.rs 64-67), a command returns.
StartRecordingInsert(t) ==
    /\ At(t, "sr_insert")
    /\ recording_processes' =
         [recording_processes EXCEPT ![tasks[t].cam] = tasks[t].h]
    /\ tasks' = IF tasks[t].op = "job"
                  THEN [tasks EXCEPT ![t] = [Idle EXCEPT !.op = "job",
                                                !.cam = tasks[t].cam,
                                                !.own = tasks[t].h,
                                                !.pc = "job_sleep"]]
                  ELSE Done(t, tasks[t].op, tasks[t].cam, "ok", Null)
    /\ UNCHANGED <<schedVars, pureVars, hostVars>>
    /\ UNCHANGED <<processes, children, recordings, last_rowid, files,
                   clock, calls, window>>

\* The recording transcoder opens its output: temp_rec_{id}.ts appears.
RecordingWrites(h) ==
    /\ Delivered
    /\ children[h].kind = "recording"
    /\ children[h].st = "spawned"
    /\ children' = [children EXCEPT ![h].st = "writing"]
    /\ files' = files \cup {TempName(children[h].cam)}
    /\ UNCHANGED <<schedVars, pureVars, hostVars>>
    /\ UNCHANGED <<processes, recording_processes, recordings, last_rowid,
                   clock, tasks, calls, window>>

\* -------------------------------------------------------- stop_recording
\* stream.rs 529-552: remove, kill and wait under the recording mutex.
StopRecordingKill(t, o, id) ==
    LET h == recording_processes[id]
    IN  /\ recording_processes' = [recording_processes EXCEPT ![id] = NoChild]
        /\ children' = IF h # NoChild THEN Reap(h) ELSE children
        /\ tasks' = Goto(t, o, id, "sp_select", [h |-> h])

\* commands.rs 128-132: the stop_recording command.
StopRecording(t, id) ==
    /\ Invoke(t, id)
    /\ StopRecordingKill(t, "stop_recording", id)
    /\ UNCHANGED <<schedVars, pureVars, hostVars>>
    /\ UNCHANGED <<processes, recordings, last_rowid, files, clock, window>>

\* scheduler.rs 67-73: the closure's sleep is over and it stops the
\* recording of its camera.
JobStop(t) ==
    /\ At(t, "job_sleep")
    /\ StopRecordingKill(t, "job", tasks[t].cam)
    /\ UNCHANGED <<schedVars, pureVars, hostVars>>
    /\ UNCHANGED <<processes, recordings, last_rowid, files, clock, calls,
                   window>>

\* stream.rs 554-563, 643-652: the youngest unfinished row of the camera.
StopRecordingSelect(t) ==
    /\ At(t, "sp_select")
    /\ LET rows == Unfinished(tasks[t].cam)
       IN  tasks' = IF rows = {}
                      THEN Done(t, tasks[t].op, tasks[t].cam, "ok", Null)
                      ELSE Goto(t, tasks[t].op, tasks[t].cam, "sp_exists",
                                [rid   |-> Youngest(rows).id,
                                 fname |-> Youngest(rows).filename,
                                 stime |-> Youngest(rows).start_time])
    /\ UNCHANGED <<schedVars, pureVars, hostVars>>
    /\ UNCHANGED <<processes, recording_processes, children, recordings,
                   last_rowid, files, clock, calls, window>>

\* A faulty variant of DeleteById: every unfinished row goes.
DeleteUnfinished(rows, rec_id) == {r \in rows : r.is_finished}

\* DELETE FROM recordings WHERE id = ?1
DeleteById(rows, rec_id) == {r \in rows : r.id # rec_id}

\* stream.rs 564-566, 638-642: temp_path.exists(); a row whose temp file is
\* missing is deleted by id.
StopRecordingExists(t) ==
    /\ At(t, "sp_exists")
    /\ IF tasks[t].fname \in files
         THEN /\ tasks' = Goto(t, tasks[t].op, tasks[t].cam, "sp_remux", <<>>)
              /\ UNCHANGED recordings
         ELSE /\ recordings' = DeleteById(recordings, tasks[t].rid)
              /\ tasks' = Done(t, tasks[t].op, tasks[t].cam, "ok", Null)
    /\ UNCHANGED <<schedVars, pureVars, hostVars>>
    /\ UNCHANGED <<processes, recording_processes, children, last_rowid,
                   files, clock, calls, window>>

\* A faulty variant of RemuxFailed: the temp file is removed all the same.
RemuxFailedCleansUp(t) ==
    /\ tasks' = Done(t, tasks[t].op, tasks[t].cam, "remux_failed", Null)
    /\ files' = files \ {tasks[t].fname}

\* stream.rs 595-600: the remux cannot be run or exits non-zero; the
\* function returns Err.
RemuxFailed(t) ==
    /\ tasks' = Done(t, tasks[t].op, tasks[t].cam, "remux_failed", Null)
    /\ UNCHANGED files

\* stream.rs 612-619: thumbnail_db_value, Some(name) when generate_thumbnail
\* returned Ok and None when it returned Err.
ThumbnailValue(outcome, final) ==
    IF outcome = "thumbnail" THEN ThumbnailName(final) ELSE Null

\* What the finalizer can meet after the existence check: the remux fails
\* (595-600); or it succeeds and then create_dir_all on the thumbnails
\* directory fails (607-609), or the directory is there and the thumbnail
\* is or is not generated (612-619).
RemuxOutcomes ==
    {"remux_failed"} \cup (IF thumbnails_dir = "blocked"
                              THEN {"thumbnail_dir_failed"}
                              ELSE {"no_thumbnail", "thumbnail"})

\* stream.rs 567-620: the remux run, which cannot succeed without its
\* input; then the temp file is removed, the thumbnails directory is made
\* (its failure returns Err with `?`, 607-609) and the thumbnail is tried
\* (its failure is not an error, 612-619).  They are one step: what another
\* task does in between commutes with the rest.
StopRecordingRemux(t) ==
    /\ At(t, "sp_remux")
    /\ \E outcome \in RemuxOutcomes :
         IF outcome = "remux_failed"
           THEN RemuxFailed(t)
           ELSE LET final == FinalName(tasks[t].cam, tasks[t].stime)
                IN  /\ tasks[t].fname \in files
                    /\ files' = (files \ {tasks[t].fname}) \cup {final}
                    /\ tasks' =
                         IF outcome = "thumbnail_dir_failed"
                           THEN [Done(t, tasks[t].op, tasks[t].cam, outcome,
                                      Null) EXCEPT ![t].final = final]
                           ELSE Goto(t, tasks[t].op, tasks[t].cam, "sp_update",
                                     [final |-> final,
                                      thumb |-> ThumbnailValue(outcome,
                                                               final)])
    /\ UNCHANGED <<schedVars, pureVars, hostVars>>
    /\ UNCHANGED <<processes, recording_processes, children, recordings,
                   last_rowid, clock, calls, window>>

\* UPDATE recordings SET is_finished = 1, filename, thumbnail, end_time
\* WHERE id = rec_id
Finalize(rows, rec_id, final, thumb, now) ==
    {IF r.id = rec_id
       THEN [r EXCEPT !.is_finished = TRUE, !.filename = final,
                      !.thumbnail = thumb, !.end_time = now]
       ELSE r : r \in rows}

\* stream.rs 622-637, 654: the UPDATE by row id; zero matched rows is no error.
StopRecordingUpdate(t) ==
    /\ At(t, "sp_update")
    /\ recordings' = Finalize(recordings, tasks[t].rid, tasks[t].final,
                              tasks[t].thumb, clock)
    /\ tasks' = Done(t, tasks[t].op, tasks[t].cam, "ok", Null)
    /\ UNCHANGED <<schedVars, pureVars, hostVars>>
    /\ UNCHANGED <<processes, recording_processes, children, last_rowid,
                   files, clock, calls, window>>

\* ------------------------------------------------------ delete_recording
\* commands.rs 164-183: remove the row's file, then the row.
DeleteRecording(r) ==
    /\ Delivered
    /\ window = "open"
    /\ calls < MaxCalls
    /\ calls' = calls + 1
    /\ r \in recordings
    /\ files' = files \ {r.filename}
    /\ recordings' = recordings \ {r}
    /\ UNCHANGED <<schedVars, pureVars, hostVars>>
    /\ UNCHANGED <<processes, recording_processes, children, last_rowid,
                   clock, tasks, window>>

\* -------------------------------------------------------- CloseRequested
\* lib.rs 122-149: drain the streams map, then the recording map, and kill
\* and wait for every child found.  The handler takes the two mutexes one
\* after the other; a step of a task that falls between the two holds
\* commutes with one of them, so the handler is one step.  Tasks in flight
\* are not cancelled: they go on until the process exits.
CloseRequested ==
    /\ Delivered
    /\ window = "open"
    /\ processes' = [c \in Cameras |-> NoChild]
    /\ recording_processes' = [c \in Cameras |-> NoChild]
    /\ children' = [h \in Handles |->
                      IF \E c \in Cameras : h \in {processes[c],
                                                  recording_processes[c]}
                        THEN Reaped
                        ELSE children[h]]
    /\ window' = "closed"
    /\ UNCHANGED <<schedVars, pureVars, hostVars>>
    /\ UNCHANGED <<recordings, last_rowid, files, clock, tasks, calls>>

\* ===================================================== schedule manager
SFree(t) == stasks[t].pc = "idle"

\* A schedule command is invoked; it takes the lowest free slot.
SInvoke(t) ==
    /\ Delivered
    /\ window = "open"
    /\ calls < MaxCalls
    /\ calls' = calls + 1
    /\ SFree(t)
    /\ \A u \in Tasks : u < t => ~SFree(u)

SDone(t, result) == [stasks EXCEPT ![t].pc = "done", ![t].ret = result]

SGoto(t, label) == [stasks EXCEPT ![t].pc = label]

SAt(t, label) == Delivered /\ stasks[t].pc = label

\* The command's result reaches the UI.
SReturn(t) ==
    /\ stasks[t].pc = "done"
    /\ stasks' = [stasks EXCEPT ![t] = SIdle]
    /\ UNCHANGED <<supervisorVars, hostVars, calls, recording_schedules,
                   last_schedule_id, engine, last_job, job_map, loader,
                   pureVars>>

\* SELECT .. FROM recording_schedules s .. WHERE s.id = ?1
RowOf(id) == {r \in recording_schedules : r.id = id}

\* scheduler.rs 29-89: the job is built from the row's expression, added to
\* the engine, and the map entry of the schedule is set to its guid.
add_schedule(jobs, map, guid, schedule) ==
    [engine |-> jobs \cup {Job(guid, schedule)},
     job_map |-> [map EXCEPT ![schedule.id] = guid]]

\* scheduler.rs 91-103: the map entry is taken out and its job removed from
\* the engine; Err when the map has no entry.
remove_schedule(jobs, map, schedule_id) ==
    IF map[schedule_id] = NoJob
      THEN [engine |-> jobs, job_map |-> map]
      ELSE [engine |-> {j \in jobs : j.guid # map[schedule_id]},
            job_map |-> [map EXCEPT ![schedule_id] = NoJob]]

\* commands.rs 501-522: the expression is validated, then the row is
\* inserted with the normalized expression.
AddRecordingSchedule(t, camera_id, expr, is_enabled) ==
    LET v == Validated[expr]
        id == last_schedule_id + 1
    IN  /\ SInvoke(t)
        /\ IF ~v.ok
             THEN /\ stasks' = [stasks EXCEPT ![t] =
                                  [SIdle EXCEPT !.op = "add_recording_schedule",
                                                !.pc = "done",
                                                !.expr = expr,
                                                !.ret = "invalid_cron"]]
                  /\ UNCHANGED <<recording_schedules, last_schedule_id>>
             ELSE /\ id \in ScheduleIds
                  /\ recording_schedules' = recording_schedules \cup
                        {ScheduleRow(id, camera_id, v.value, is_enabled)}
                  /\ last_schedule_id' = id
                  /\ stasks' = [stasks EXCEPT ![t] =
                                  [SIdle EXCEPT !.op = "add_recording_schedule",
                                                !.pc = "as_select",
                                                !.id = id, !.expr = expr,
                                                !.cron = v.value]]
        /\ UNCHANGED <<supervisorVars, hostVars, engine, last_job, job_map, loader,
                       pureVars>>

\* commands.rs 524-553: the created row is read back.
AddRecordingScheduleSelect(t) ==
    /\ SAt(t, "as_select")
    /\ IF RowOf(stasks[t].id) = {}
         THEN stasks' = SDone(t, "db_error")
         ELSE \E r \in RowOf(stasks[t].id) :
                 stasks' = [stasks EXCEPT ![t].row = r,
                                          ![t].pc = IF r.is_enabled
                                                      THEN "as_register"
                                                      ELSE "done",
                                          ![t].ret = IF r.is_enabled
                                                       THEN "none" ELSE "ok"]
    /\ UNCHANGED <<supervisorVars, hostVars, calls, recording_schedules,
                   last_schedule_id, engine, last_job, job_map, loader,
                   pureVars>>

\* commands.rs 555-574: with the scheduler locked, add_schedule.
AddRecordingScheduleRegister(t) ==
    LET after == add_schedule(engine, job_map, last_job + 1, stasks[t].row)
    IN  /\ SAt(t, "as_register")
        /\ engine' = after.engine
        /\ job_map' = after.job_map
        /\ last_job' = last_job + 1
        /\ stasks' = SDone(t, "ok")
        /\ UNCHANGED <<supervisorVars, hostVars, calls, recording_schedules,
                       last_schedule_id, loader, pureVars>>

\* commands.rs 577-597, the first statement of update_recording_schedule
\* (toggle_schedule, 729-746, is this command with is_enabled alone): the
\* expression, when given, is validated, then is_enabled is read.  The
\* scheduler is reached when `updates` has an is_enabled, a cron_expression
\* or a duration_minutes (675); its fps and its name do not count.
UpdateRecordingSchedule(t, id, expr, enabled, duration, fps) ==
    LET v == IF expr = Null THEN [ok |-> TRUE, value |-> Null]
             ELSE Validated[expr]
        call == [SIdle EXCEPT !.op = "update_recording_schedule", !.id = id,
                              !.expr = expr]
    IN  /\ SInvoke(t)
        /\ IF ~v.ok
             THEN stasks' = [stasks EXCEPT ![t] =
                               [call EXCEPT !.pc = "done",
                                            !.ret = "invalid_cron"]]
             ELSE IF RowOf(id) = {}
               THEN stasks' = [stasks EXCEPT ![t] =
                                 [call EXCEPT !.pc = "done",
                                              !.ret = "not_found"]]
               ELSE \E r \in RowOf(id) :
                      stasks' = [stasks EXCEPT ![t] =
                                   [call EXCEPT
                                      !.pc = "us_update",
                                      !.cron = v.value,
                                      !.enabled = enabled,
                                      !.duration = duration,
                                      !.fps = fps,
                                      !.rearm = \/ enabled # "unset"
                                                \/ expr # Null
                                                \/ duration # None,
                                      !.old_enabled = r.is_enabled]]
        /\ UNCHANGED <<supervisorVars, hostVars, recording_schedules, last_schedule_id,
                       engine, last_job, job_map, loader, pureVars>>

\* UPDATE recording_schedules SET .. WHERE id = ?
UpdatedRow(r, cron, enabled, duration, fps) ==
    [r EXCEPT !.cron_expression = IF cron = Null THEN @ ELSE cron,
              !.duration_minutes = IF duration = None THEN @ ELSE duration[1],
              !.fps = IF fps = None THEN @ ELSE fps,
              !.is_enabled = IF enabled = "unset" THEN @ ELSE enabled = "on"]

\* commands.rs 599-643: the one UPDATE; a row that is gone is no error.
UpdateRecordingScheduleUpdate(t) ==
    /\ SAt(t, "us_update")
    /\ recording_schedules' =
          {IF r.id = stasks[t].id
             THEN UpdatedRow(r, stasks[t].cron, stasks[t].enabled,
                             stasks[t].duration, stasks[t].fps)
             ELSE r : r \in recording_schedules}
    /\ stasks' = SGoto(t, "us_select")
    /\ UNCHANGED <<supervisorVars, hostVars, calls, last_schedule_id, engine, last_job,
                   job_map, loader, pureVars>>

\* commands.rs 645-672: the updated row is read back.
UpdateRecordingScheduleSelect(t) ==
    /\ SAt(t, "us_select")
    /\ IF RowOf(stasks[t].id) = {}
         THEN stasks' = SDone(t, "db_error")
         ELSE \E r \in RowOf(stasks[t].id) :
                 stasks' = [stasks EXCEPT ![t].row = r,
                                          ![t].pc = IF stasks[t].rearm
                                                      THEN "us_register"
                                                      ELSE "done",
                                          ![t].ret = IF stasks[t].rearm
                                                       THEN "none" ELSE "ok"]
    /\ UNCHANGED <<supervisorVars, hostVars, calls, recording_schedules,
                   last_schedule_id, engine, last_job, job_map, loader,
                   pureVars>>

\* commands.rs 674-702: with the scheduler locked, the old job is removed
\* when the schedule was enabled, and a job is added when it is now.
UpdateRecordingScheduleRegister(t) ==
    LET id == stasks[t].id
        removed == IF stasks[t].old_enabled
                     THEN remove_schedule(engine, job_map, id)
                     ELSE [engine |-> engine, job_map |-> job_map]
        after == IF stasks[t].row.is_enabled
                   THEN add_schedule(removed.engine, removed.job_map,
                                     last_job + 1, stasks[t].row)
                   ELSE removed
    IN  /\ SAt(t, "us_register")
        /\ engine' = after.engine
        /\ job_map' = after.job_map
        /\ last_job' = IF stasks[t].row.is_enabled THEN last_job + 1
                       ELSE last_job
        /\ stasks' = SDone(t, "ok")
        /\ UNCHANGED <<supervisorVars, hostVars, calls, recording_schedules,
                       last_schedule_id, loader, pureVars>>

\* commands.rs 705-713: with the scheduler locked, remove_schedule; its
\* error is ignored.
DeleteRecordingSchedule(t, id) ==
    LET after == remove_schedule(engine, job_map, id)
    IN  /\ SInvoke(t)
        /\ engine' = after.engine
        /\ job_map' = after.job_map
        /\ stasks' = [stasks EXCEPT ![t] =
                        [SIdle EXCEPT !.op = "delete_recording_schedule",
                                      !.pc = "ds_delete", !.id = id]]
        /\ UNCHANGED <<supervisorVars, hostVars, recording_schedules, last_schedule_id,
                       last_job, loader, pureVars>>

\* commands.rs 715-726: DELETE the row; Err when there was none.
DeleteRecordingScheduleDelete(t) ==
    /\ SAt(t, "ds_delete")
    /\ recording_schedules' = recording_schedules \ RowOf(stasks[t].id)
    /\ stasks' = SDone(t, IF RowOf(stasks[t].id) = {} THEN "not_found"
                          ELSE "ok")
    /\ UNCHANGED <<supervisorVars, hostVars, calls, last_schedule_id, engine, last_job,
                   job_map, loader, pureVars>>

\* lib.rs 182-226: the startup task reads the enabled rows.
LoadSelect ==
    /\ Delivered
    /\ loader.pc = "select"
    /\ loader' = [pc |-> "add",
                  rows |-> {r \in recording_schedules : r.is_enabled}]
    /\ UNCHANGED <<supervisorVars, hostVars, calls, recording_schedules,
                   last_schedule_id, engine, last_job, job_map, stasks,
                   pureVars>>

\* add_schedule for every row of a set, under one hold of the scheduler lock.
RECURSIVE AddAll(_, _, _, _)
AddAll(jobs, map, guid, rows) ==
    IF rows = {} THEN [engine |-> jobs, job_map |-> map]
    ELSE LET r == CHOOSE x \in rows : \A y \in rows : x.id <= y.id
             one == add_schedule(jobs, map, guid + 1, r)
         IN  AddAll(one.engine, one.job_map, guid + 1, rows \ {r})

\* lib.rs 242-253: with the scheduler locked, add_schedule for each row read.
LoadRegister ==
    LET after == AddAll(engine, job_map, last_job, loader.rows)
    IN  /\ Delivered
        /\ loader.pc = "add"
        /\ engine' = after.engine
        /\ job_map' = after.job_map
        /\ last_job' = last_job + Cardinality(loader.rows)
        /\ loader' = [pc |-> "done", rows |-> {}]
        /\ UNCHANGED <<supervisorVars, hostVars, calls, recording_schedules,
                       last_schedule_id, stasks, pureVars>>

\* A faulty variant of Fire: a job whose closure finds the camera recording
\* is taken out of the engine.
FireDroppingFailed(t, j) ==
    /\ j \in engine
    /\ Invoke(t, j.camera_id)
    /\ IF RecordingPresent(j.camera_id)
         THEN /\ FailsEarly(t, "job", j.camera_id, "already_recording")
              /\ engine' = engine \ {j}
         ELSE /\ children' = Spawn("recording", j.camera_id)
              /\ tasks' = Goto(t, "job", j.camera_id, "sr_db",
                               [h |-> NextHandle])
              /\ UNCHANGED <<recordings, last_rowid, clock, engine>>
    /\ UNCHANGED <<recording_schedules, last_schedule_id, last_job, job_map,
                   stasks, loader, pureVars, hostVars>>
    /\ UNCHANGED <<processes, recording_processes, files, window>>

\* scheduler.rs 43-62: the engine runs the closure of a registered job, which
\* starts with start_scheduled_recording.  The closure holds the AppState
\* and nothing of the scheduler: when start_scheduled_recording fails it
\* prints the error and returns (57-60), and the job stays registered.
Fire(t, j) ==
    /\ j \in engine
    /\ StartRecording(t, "job", j.camera_id)

\* --------------------------------------------------------- the finalizer
\* The recording commands alone, on a host where the thumbnails directory
\* can or cannot be created.
FinalizeInit ==
    /\ SupervisorInit
    /\ SchedulesLoaded
    /\ PluginsQuiet
    /\ SelectorQuiet
    /\ thumbnails_dir \in {"creatable", "blocked"}
    /\ WireQuiet
    /\ SettingsQuiet
    /\ DiscoveryQuiet
    /\ LockQuiet

FinalizeNext ==
    \/ \E t \in Tasks : Return(t)
    \/ \E t \in Tasks, c \in Cameras : StartRecording(t, "start_recording", c)
    \/ \E t \in Tasks : StartRecordingRow(t)
    \/ \E t \in Tasks : StartRecordingInsert(t)
    \/ \E h \in Handles : RecordingWrites(h)
    \/ \E t \in Tasks, c \in Cameras : StopRecording(t, c)
    \/ \E t \in Tasks : StopRecordingSelect(t)
    \/ \E t \in Tasks : StopRecordingExists(t)
    \/ \E t \in Tasks : StopRecordingRemux(t)
    \/ \E t \in Tasks : StopRecordingUpdate(t)

FinalizeSpec == FinalizeInit /\ [][FinalizeNext]_vars

\* ------------------------------------------------------------------ Next
Next ==
    \/ \E t \in Tasks : Return(t)
    \/ \E t \in Tasks, c \in Cameras : StartStream(t, c)
    \/ \E t \in Tasks : StartStreamInsert(t)
    \/ \E t \in Tasks, c \in Cameras : StopStream(t, c)
    \/ \E t \in Tasks : StopStreamRecording(t)
    \/ \E t \in Tasks, c \in Cameras : StartRecording(t, "start_recording", c)
    \/ \E t \in Tasks, j \in engine : Fire(t, j)
    \/ \E t \in Tasks : StartRecordingRow(t)
    \/ \E t \in Tasks : StartRecordingInsert(t)
    \/ \E h \in Handles : RecordingWrites(h)
    \/ \E t \in Tasks, c \in Cameras : StopRecording(t, c)
    \/ \E t \in Tasks : JobStop(t)
    \/ \E t \in Tasks : StopRecordingSelect(t)
    \/ \E t \in Tasks : StopRecordingExists(t)
    \/ \E t \in Tasks : StopRecordingRemux(t)
    \/ \E t \in Tasks : StopRecordingUpdate(t)
    \/ \E r \in recordings : DeleteRecording(r)
    \/ CloseRequested

Spec == Init /\ [][Next]_vars

\* --------------------------------------------- the schedules being edited
\* The tables a previous run may have left.
Persisted ==
    {{}, {ScheduleRow(1, 1, StoredCron, TRUE)},
         {ScheduleRow(1, 1, StoredCron, FALSE)}}

\* lib.rs 69-100: the scheduler is created empty and the loader is spawned.
SchedInit ==
    /\ SupervisorInit
    /\ recording_schedules \in Persisted
    /\ last_schedule_id = Cardinality(recording_schedules)
    /\ engine = {}
    /\ last_job = 0
    /\ job_map = [sid \in ScheduleIds |-> NoJob]
    /\ stasks = [t \in Tasks |-> SIdle]
    /\ loader = [pc |-> "select", rows |-> {}]
    /\ PluginsQuiet
    /\ HostQuiet
    /\ SelectorQuiet

\* What `updates` may carry for is_enabled, duration_minutes and fps.
Toggles == {"unset", "on", "off"}
Durations == {None, Some(2)}
FpsValues == {None, Some(15)}

\* The schedules of this run are for the first camera, the expression the
\* UI sends is the five-field one, and no update carries a duration (one
\* with an expression reaches the scheduler the same way).
ScheduledCameras == {CHOOSE c \in Cameras : \A d \in Cameras : c <= d}
ScheduledCrons == {CronText(5, 0, FALSE)}

SchedNext ==
    \/ \E t \in Tasks : SReturn(t)
    \/ \E t \in Tasks : Return(t)
    \/ LoadSelect
    \/ LoadRegister
    \/ \E t \in Tasks, c \in ScheduledCameras, e \in ScheduledCrons,
          en \in BOOLEAN :
          AddRecordingSchedule(t, c, e, en)
    \/ \E t \in Tasks : AddRecordingScheduleSelect(t)
    \/ \E t \in Tasks : AddRecordingScheduleRegister(t)
    \/ \E t \in Tasks, id \in ScheduleIds, e \in ScheduledCrons \cup {Null},
          en \in Toggles :
          UpdateRecordingSchedule(t, id, e, en, None, None)
    \/ \E t \in Tasks : UpdateRecordingScheduleUpdate(t)
    \/ \E t \in Tasks : UpdateRecordingScheduleSelect(t)
    \/ \E t \in Tasks : UpdateRecordingScheduleRegister(t)
    \/ \E t \in Tasks, id \in ScheduleIds : DeleteRecordingSchedule(t, id)
    \/ \E t \in Tasks : DeleteRecordingScheduleDelete(t)
    \/ \E t \in Tasks, j \in engine : Fire(t, j)
    \/ \E t \in Tasks : StartRecordingRow(t)
    \/ \E t \in Tasks : StartRecordingInsert(t)
    \/ \E h \in Handles : RecordingWrites(h)
    \/ \E t \in Tasks : JobStop(t)
    \/ \E t \in Tasks : StopRecordingSelect(t)
    \/ \E t \in Tasks : StopRecordingExists(t)
    \/ \E t \in Tasks : StopRecordingRemux(t)
    \/ \E t \in Tasks : StopRecordingUpdate(t)

SchedSpec == SchedInit /\ [][SchedNext]_vars

\* ------------------------------------- the expressions the commands take
\* The loader is through: every enabled row that was there has its job.
CronInit ==
    LET loaded == AddAll({}, [sid \in ScheduleIds |-> NoJob], 0,
                         {r \in recording_schedules : r.is_enabled})
    IN  /\ SupervisorInit
        /\ recording_schedules \in Persisted
        /\ last_schedule_id = Cardinality(recording_schedules)
        /\ engine = loaded.engine
        /\ job_map = loaded.job_map
        /\ last_job = Cardinality(engine)
        /\ stasks = [t \in Tasks |-> SIdle]
        /\ loader = [pc |-> "done", rows |-> {}]
        /\ PluginsQuiet
        /\ HostQuiet
        /\ SelectorQuiet

\* No schedule command is under way.
NoneRunning == \A t \in Tasks : SFree(t)

\* add_recording_schedule and update_recording_schedule with every
\* expression of CronInputs, one command after the other; no job fires
\* meanwhile.  A duration_minutes in `updates` is the one the row has.
CronNext ==
    \/ \E t \in Tasks : SReturn(t)
    \/ \E t \in Tasks, c \in ScheduledCameras, e \in CronInputs,
          en \in BOOLEAN :
          NoneRunning /\ AddRecordingSchedule(t, c, e, en)
    \/ \E t \in Tasks : AddRecordingScheduleSelect(t)
    \/ \E t \in Tasks : AddRecordingScheduleRegister(t)
    \/ \E t \in Tasks, id \in ScheduleIds, e \in CronInputs \cup {Null},
          en \in Toggles, d \in {None, Some(1)} :
          NoneRunning /\ UpdateRecordingSchedule(t, id, e, en, d, None)
    \/ \E t \in Tasks : UpdateRecordingScheduleUpdate(t)
    \/ \E t \in Tasks : UpdateRecordingScheduleSelect(t)
    \/ \E t \in Tasks : UpdateRecordingScheduleRegister(t)

CronSpec == CronInit /\ [][CronNext]_vars

\* ------------------------------------------------------- camera plugins
\* plugin_type() of the two implementations of CameraPlugin.
Plugins == {"onvif", "uvc"}

PtzOps == {"ptz_move", "ptz_stop"}
TimeOps == {"get_camera_time", "set_camera_time"}

\* camera_plugin.rs 54-56 (the default), onvif_plugin.rs 59-61,
\* uvc_plugin.rs 77-79
supports_ptz(p) == p = "onvif"

\* camera_plugin.rs 59-61 (the default), onvif_plugin.rs 63-65,
\* uvc_plugin.rs 81-83
supports_time_sync(p) == p = "onvif"

\* A faulty variant of Overrides: every plugin has the four methods of its
\* own, sending a request.
OverridesAll(p) == PtzOps \cup TimeOps

\* The methods the impl block of plugin p defines itself; the others are the
\* defaults of the trait.
Overrides(p) ==
    IF p = "onvif" THEN PtzOps \cup TimeOps ELSE {}

\* camera_plugin.rs 64-90: the default bodies.
DefaultResult(op) ==
    IF op \in PtzOps THEN "PTZ not supported by this plugin"
    ELSE "Time sync not supported by this plugin"

\* One call of op on plugin p.  An overriding method sends its request to
\* the camera (onvif_plugin.rs 67-126), which answers or does not; a default
\* method returns its Err.
PluginCall(p, op) ==
    /\ Len(plugin_log) < MaxOps
    /\ IF op \in Overrides(p)
         THEN /\ network' = network + 1
              /\ \E result \in {"ok", "request failed"} :
                    plugin_log' = Append(plugin_log,
                                         [plugin |-> p, op |-> op,
                                          result |-> result])
         ELSE /\ UNCHANGED network
              /\ plugin_log' = Append(plugin_log,
                                      [plugin |-> p, op |-> op,
                                       result |-> DefaultResult(op)])
    /\ UNCHANGED <<supervisorVars, hostVars, calls, schedVars, settings, capabilities,
                   selections>>

PtzMove(p) == PluginCall(p, "ptz_move")
PtzStop(p) == PluginCall(p, "ptz_stop")
GetCameraTime(p) == PluginCall(p, "get_camera_time")
SetCameraTime(p) == PluginCall(p, "set_camera_time")

PluginNext ==
    \/ \E p \in Plugins : PtzMove(p)
    \/ \E p \in Plugins : PtzStop(p)
    \/ \E p \in Plugins : GetCameraTime(p)
    \/ \E p \in Plugins : SetCameraTime(p)

PluginSpec == Init /\ [][PluginNext]_vars

\* ----------------------------------------------------- encoder selection
\* i32::to_string and u8-free decimal text of the numbers the argv holds.
to_string(n) ==
    CASE n = 23 -> "23" [] n = 30 -> "30" [] n = 60 -> "60"

\* The arms of `match encoder` (encoder.rs 93, 210).
Nvenc == {"h264_nvenc", "hevc_nvenc"}
Qsv == {"h264_qsv", "hevc_qsv"}
Amf == {"h264_amf", "hevc_amf"}
Vaapi == {"h264_vaapi", "hevc_vaapi"}
VideoToolbox == {"h264_videotoolbox", "hevc_videotoolbox"}

EncoderConfig(codec, args, is_gpu) ==
    [kind |-> "config", codec |-> codec, args |-> args, is_gpu |-> is_gpu]

\* What the caller gets when the selector panics: no EncoderConfig.
Panic == [kind |-> "panic", codec |-> "", args |-> <<>>, is_gpu |-> FALSE]

\* fps.map(|f| f * 2).unwrap_or(60).to_string()
keyframe_interval(fps) == to_string(IF fps = None THEN 60 ELSE fps[1] * 2)

\* encoder.rs 85-181
build_gpu_config_streaming(self, encoder, fps) ==
    LET g == keyframe_interval(fps)
        q == to_string(self.settings.quality)
        force == <<"-force_key_frames", "expr:gte(t,n_forced*2)">>
        args ==
          IF encoder \in Nvenc THEN
            <<"-c:v", encoder, "-preset", "p1", "-tune", "ll",
              "-zerolatency", "1", "-rc", "cbr", "-b:v", "4M",
              "-maxrate", "4M", "-bufsize", "2M", "-g", g>>
              \o force \o <<"-bf", "0">>
          ELSE IF encoder \in Qsv THEN
            <<"-init_hw_device", "qsv=hw", "-filter_hw_device", "hw",
              "-c:v", encoder, "-preset", "veryfast", "-global_quality", q,
              "-look_ahead", "0", "-b:v", "4M", "-maxrate", "4M",
              "-bufsize", "2M", "-g", g, "-sc_threshold", "0">>
          ELSE IF encoder \in Amf THEN
            <<"-c:v", encoder, "-quality", "speed", "-rc", "cbr",
              "-b:v", "4M", "-maxrate", "4M", "-bufsize", "2M", "-g", g>>
              \o force
          ELSE IF encoder \in Vaapi THEN
            <<"-init_hw_device", "vaapi=va:/dev/dri/renderD128",
              "-filter_hw_device", "va", "-c:v", encoder, "-qp", q,
              "-quality", "1", "-b:v", "4M", "-maxrate", "4M", "-g", g>>
              \o force
          ELSE IF encoder \in VideoToolbox THEN
            <<"-c:v", encoder, "-b:v", "4M", "-maxrate", "4M",
              "-bufsize", "2M", "-realtime", "1", "-g", g>> \o force
          ELSE <<"-c:v", encoder, "-b:v", "4M", "-g", g>> \o force
    IN  EncoderConfig(encoder, args, TRUE)

\* encoder.rs 183-205
build_cpu_config_streaming(self, fps) ==
    LET g == keyframe_interval(fps)
    IN  EncoderConfig(self.settings.cpuEncoder,
                      <<"-c:v", self.settings.cpuEncoder,
                        "-preset", self.settings.preset,
                        "-tune", "zerolatency", "-g", g, "-keyint_min", g,
                        "-sc_threshold", "0",
                        "-force_key_frames", "expr:gte(t,n_forced*2)">>,
                      FALSE)

\* encoder.rs 207-288
build_gpu_config_recording(self, encoder) ==
    LET q == to_string(self.settings.quality)
        force == <<"-force_key_frames", "expr:gte(t,n_forced*2)">>
        args ==
          IF encoder \in Nvenc THEN
            <<"-c:v", encoder, "-preset", "p4", "-rc", "vbr", "-cq", q,
              "-b:v", "8M", "-maxrate", "10M", "-bufsize", "8M",
              "-g", "120">> \o force
          ELSE IF encoder \in Qsv THEN
            <<"-init_hw_device", "qsv=hw", "-filter_hw_device", "hw",
              "-c:v", encoder, "-preset", "medium", "-global_quality", q,
              "-b:v", "8M", "-maxrate", "10M", "-g", "120",
              "-sc_threshold", "0">>
          ELSE IF encoder \in Amf THEN
            <<"-c:v", encoder, "-quality", "balanced", "-rc", "vbr_latency",
              "-b:v", "8M", "-maxrate", "10M", "-g", "120">> \o force
          ELSE IF encoder \in Vaapi THEN
            <<"-init_hw_device", "vaapi=va:/dev/dri/renderD128",
              "-filter_hw_device", "va", "-c:v", encoder, "-qp", q,
              "-quality", "2", "-b:v", "8M", "-maxrate", "10M",
              "-g", "120">> \o force
          ELSE IF encoder \in VideoToolbox THEN
            <<"-c:v", encoder, "-b:v", "8M", "-maxrate", "10M",
              "-g", "120">> \o force
          ELSE <<"-c:v", encoder, "-b:v", "8M", "-g", "120">> \o force
    IN  EncoderConfig(encoder, args, TRUE)

\* encoder.rs 290-301
build_cpu_config_recording(self) ==
    EncoderConfig(self.settings.cpuEncoder,
                  <<"-c:v", self.settings.cpuEncoder,
                    "-preset", self.settings.preset>>,
                  FALSE)

\* What one run of the test transcoder may do: it cannot be started, or it
\* exits with or without success, with or without "frame=" on stderr.
TestOutcomes ==
    {[ran |-> FALSE, success |-> FALSE, frame |-> FALSE]}
      \cup {[ran |-> TRUE, success |-> s, frame |-> f] :
               s \in BOOLEAN, f \in BOOLEAN}

\* A faulty variant of test_encoder: the test passes the first time only.
test_encoder_once(outcome) ==
    outcome.ran /\ outcome.success /\ selections = <<>>

\* gpu_detector.rs 266-332: Ok(result) => result.status.success() (the
\* search for "frame=" prints a line and decides nothing), Err(_) => false.
test_encoder(outcome) ==
    IF outcome.ran THEN outcome.success ELSE FALSE

\* Whether the selector runs the functional test: Auto, with a GPU encoder
\* set that is among the available ones (encoder.rs 26-30, 63-65).
Tests(self) ==
    /\ self.settings.encoderMode = "Auto"
    /\ self.settings.gpuEncoder # None
    /\ \E e \in self.capabilities.availableEncoders :
          self.settings.gpuEncoder = Some(e)

\* encoder.rs 24-58; outcome is what the test transcoder does if it is run.
select_encoder_for_streaming(self, fps, outcome) ==
    LET mode == self.settings.encoderMode
        gpuEncoder == self.settings.gpuEncoder
    IN  IF mode = "Auto"
          THEN IF Tests(self) /\ test_encoder(outcome)
                 THEN build_gpu_config_streaming(self, gpuEncoder[1], fps)
                 ELSE build_cpu_config_streaming(self, fps)
        ELSE IF mode = "GpuOnly"
          THEN IF gpuEncoder = None
                 THEN Panic   \* .expect("GPU encoder must be set ..")
                 ELSE build_gpu_config_streaming(self, gpuEncoder[1], fps)
        ELSE build_cpu_config_streaming(self, fps)

\* encoder.rs 60-83
select_encoder_for_recording(self, outcome) ==
    LET mode == self.settings.encoderMode
        gpuEncoder == self.settings.gpuEncoder
    IN  IF mode = "Auto"
          THEN IF Tests(self) /\ test_encoder(outcome)
                 THEN build_gpu_config_recording(self, gpuEncoder[1])
                 ELSE build_cpu_config_recording(self)
        ELSE IF mode = "GpuOnly"
          THEN IF gpuEncoder = None
                 THEN Panic   \* .expect("GPU encoder must be set ..")
                 ELSE build_gpu_config_recording(self, gpuEncoder[1])
        ELSE build_cpu_config_recording(self)

\* stream.rs 47-51, 778-798: the selector is built from the detected
\* capabilities and the encoder_settings row.
Selector == [capabilities |-> capabilities, settings |-> settings]

\* The values of encoder_settings.gpuEncoder and of camera.video_fps, and the
\* encoder lists the detection may have found.
GpuEncoders ==
    {"h264_nvenc", "hevc_qsv", "h264_amf", "h264_vaapi", "hevc_videotoolbox",
     "av1_nvenc"}
EncoderModes == {"Auto", "GpuOnly", "CpuOnly", "Manual"}
FpsInputs == {None, Some(15), Some(30)}
Detected == {{}, {"h264_nvenc", "hevc_qsv", "h264_amf"}, GpuEncoders}

\* The outcomes to choose from: one placeholder when no test is run.
OutcomesFor(self) ==
    IF Tests(self) THEN TestOutcomes
    ELSE {[ran |-> FALSE, success |-> FALSE, frame |-> FALSE]}

\* stream.rs 80: start_stream asks for the streaming encoder.
SelectEncoderForStreaming(fps, outcome) ==
    /\ Len(selections) < MaxSelections
    /\ outcome \in OutcomesFor(Selector)
    /\ selections' = Append(selections,
          [intent |-> "streaming", fps |-> fps, tested |-> Tests(Selector),
           outcome |-> outcome,
           result |-> select_encoder_for_streaming(Selector, fps, outcome)])
    /\ UNCHANGED <<supervisorVars, hostVars, calls, schedVars, plugin_log, network,
                   settings, capabilities>>

\* stream.rs 367: start_recording asks for the recording encoder.
SelectEncoderForRecording(outcome) ==
    /\ Len(selections) < MaxSelections
    /\ outcome \in OutcomesFor(Selector)
    /\ selections' = Append(selections,
          [intent |-> "recording", fps |-> None, tested |-> Tests(Selector),
           outcome |-> outcome,
           result |-> select_encoder_for_recording(Selector, outcome)])
    /\ UNCHANGED <<supervisorVars, hostVars, calls, schedVars, plugin_log, network,
                   settings, capabilities>>

\* The settings row and the capabilities are whatever the UI saved and the
\* detection found.
EncoderInit ==
    /\ SupervisorInit
    /\ SchedulesLoaded
    /\ PluginsQuiet
    /\ HostQuiet
    /\ \E mode \in EncoderModes,
          gpu \in {None} \cup {Some(e) : e \in GpuEncoders} :
          settings = [DefaultSettings EXCEPT !.encoderMode = mode,
                                             !.gpuEncoder = gpu]
    /\ \E available \in Detected :
          capabilities = [availableEncoders |-> available]
    /\ selections = <<>>

EncoderNext ==
    \/ \E fps \in FpsInputs, outcome \in TestOutcomes :
          SelectEncoderForStreaming(fps, outcome)
    \/ \E outcome \in TestOutcomes : SelectEncoderForRecording(outcome)

EncoderSpec == EncoderInit /\ [][EncoderNext]_vars

\* ================================================================= ONVIF
\* The time and PTZ commands of commands.rs and the SOAP client of onvif.rs.
\* What the camera answers is the environment's choice.  Between its
\* requests a command touches nothing that another task can see, so a
\* command is one step up to the point where it takes the streams mutex.

\* Option<String>::unwrap_or_default()
unwrap_or_default(o) == IF o = None THEN "" ELSE o[1]

\* onvif.rs 158-180: the WS-Security UsernameToken header; the nonce and the
\* timestamp are fresh on every call and decide nothing here.
generate_security_header(user, pass) ==
    <<"UsernameToken", user, <<"PasswordDigest", pass>>>>

\* A faulty variant of build_soap_envelope: the header is always there.
build_soap_envelope_signed(user, pass, body_content) ==
    [header |-> generate_security_header(user, pass), body |-> body_content]

\* onvif.rs 375-394
build_soap_envelope(user, pass, body_content) ==
    [header |-> IF user # "" THEN generate_security_header(user, pass)
                             ELSE <<>>,
     body   |-> body_content]

\* client.post(..).body(envelope).send(): the request as it leaves for
\* camera id.
Request(id, envelope) ==
    [cam |-> id, action |-> envelope.body, header |-> envelope.header]

\* The envelope of an authenticated request of the camera.
Authenticated(camera, body_content) ==
    build_soap_envelope(unwrap_or_default(camera.user),
                        unwrap_or_default(camera.pass), body_content)

\* No answer within the client's five seconds, or none at all.
Timeout == [status |-> 0, body |-> "timeout"]

\* What a camera can send back: an HTTP status with a body that is the
\* expected response, a SOAP fault, or nothing the parsers recognise.
Replies ==
    {Timeout} \cup [status : {200, 500}, body : {"expected", "fault", "unparsable"}]

\* A GetSystemDateAndTime response may also carry a date that is no date.
TimeReplies == Replies \cup {[status |-> 200, body |-> "invalid_date"]}

\* send().await and text().await returned Ok; the status is not looked at.
Sent(reply) == reply # Timeout

\* The regex of get_ptz_service_url (onvif.rs 278-283) or of
\* parse_first_profile_token (415-420) finds its capture.
Parsed(reply) == Sent(reply) /\ reply.body = "expected"

\* onvif.rs 526-576 parse_system_date_time
TimeParsed(reply) == Sent(reply) /\ reply.body \in {"expected", "invalid_date"}

\* onvif.rs 467-478 ONVIFDateTime::to_chrono
to_chrono(reply) == IF reply.body = "expected" THEN Some("datetime") ELSE None

\* onvif.rs 621-636: the status is a success and the body has no "Fault".
SetAccepted(reply) ==
    Sent(reply) /\ reply.status = 200 /\ reply.body # "fault"

\* A faulty variant of IsOnvif: the backend tag is not looked at.
IsOnvifAlways(camera) == TRUE

\* camera.camera_type != "onvif"
IsOnvif(camera) == camera.camera_type = "onvif"

\* The command returns early: camera not found, not an ONVIF camera, or
\* camera.xaddr.clone().ok_or(..)? on a null xaddr.  "sendable" otherwise.
Refusal(camera) ==
    IF camera = NoCamera THEN "camera_not_found"
    ELSE IF ~IsOnvif(camera) THEN "not_onvif"
    ELSE IF camera.xaddr = None THEN "no_xaddr"
    ELSE "sendable"

\* The command returns after the camera's answer reply.
Replied(t, o, id, result, reply) ==
    [Done(t, o, id, result, Null) EXCEPT ![t].reply = reply]

\* onvif.rs 305-373: continuous_move and stop_move.  GetCapabilities and
\* GetProfiles must parse; the reply to the PTZ request itself is only
\* awaited.
PtzCommand(t, o, id, action) ==
    /\ Invoke(t, id)
    /\ LET camera == cameras[id]
           caps == Request(id, Authenticated(camera, "GetCapabilities"))
           prof == Request(id, Authenticated(camera, "GetProfiles"))
           ptz  == Request(id, Authenticated(camera, action))
       IN  IF Refusal(camera) # "sendable"
             THEN /\ tasks' = Done(t, o, id, Refusal(camera), Null)
                  /\ UNCHANGED requests
             ELSE \E r1 \in Replies :
                    IF ~Parsed(r1)
                      THEN /\ requests' = requests \cup {caps}
                           /\ tasks' = Replied(t, o, id, "capabilities_failed", r1)
                      ELSE \E r2 \in Replies :
                             IF ~Parsed(r2)
                               THEN /\ requests' = requests \cup {caps, prof}
                                    /\ tasks' = Replied(t, o, id, "profiles_failed", r2)
                               ELSE \E r3 \in Replies :
                                      /\ requests' = requests \cup {caps, prof, ptz}
                                      /\ tasks' = Replied(t, o, id,
                                                     IF Sent(r3) THEN "ok"
                                                                 ELSE "send_failed", r3)
    /\ UNCHANGED <<schedVars, pureVars, lockVars, thumbnails_dir, cameras, settingsVars,
                   discovery>>
    /\ UNCHANGED <<processes, recording_processes, children, recordings,
                   last_rowid, files, clock, window>>

\* commands.rs 327-341
MovePtz(t, id) == PtzCommand(t, "move_ptz", id, "ContinuousMove")

\* commands.rs 343-355
StopPtz(t, id) == PtzCommand(t, "stop_ptz", id, "Stop")

\* onvif.rs 499-524: GetSystemDateAndTime goes out with empty credentials.
TimeRequest(id) ==
    Request(id, build_soap_envelope("", "", "GetSystemDateAndTime"))

\* commands.rs 186-209 with onvif.rs 499-524
GetCameraTimeCommand(t, id) ==
    /\ Invoke(t, id)
    /\ LET camera == cameras[id]
       IN  IF Refusal(camera) # "sendable"
             THEN /\ tasks' = Done(t, "get_camera_time", id, Refusal(camera), Null)
                  /\ UNCHANGED requests
             ELSE \E r \in TimeReplies :
                    /\ requests' = requests \cup {TimeRequest(id)}
                    /\ tasks' = Replied(t, "get_camera_time", id,
                                        IF TimeParsed(r) THEN "ok"
                                                         ELSE "get_time_failed", r)
    /\ UNCHANGED <<schedVars, pureVars, lockVars, thumbnails_dir, cameras, settingsVars,
                   discovery>>
    /\ UNCHANGED <<processes, recording_processes, children, recordings,
                   last_rowid, files, clock, window>>

\* A faulty variant of Restarts: the stream is restarted in any case.
RestartsAlways(was_streaming) == TRUE

\* commands.rs 250: if was_streaming
Restarts(was_streaming) == was_streaming

\* commands.rs 268-286: what sync_camera_time returns in the end; both
\* to_chrono conversions come after the restart.
SyncResult(before, after) ==
    IF to_chrono(before) = None THEN "invalid_time"
    ELSE IF TimeParsed(after) /\ to_chrono(after) = None THEN "invalid_time"
    ELSE "ok"

\* commands.rs 211-247: the lookup, was_streaming under the streams mutex,
\* the read before, the set, the dwell and the read after, whose failure is
\* only logged.
SyncCameraTime(t, id) ==
    /\ Invoke(t, id)
    /\ LET camera == cameras[id]
           was_streaming == StreamPresent(id)
           set == Request(id, Authenticated(camera, "SetSystemDateAndTime"))
       IN  IF Refusal(camera) # "sendable"
             THEN /\ tasks' = Done(t, "sync_camera_time", id, Refusal(camera), Null)
                  /\ UNCHANGED requests
             ELSE \E before \in TimeReplies :
                    IF ~TimeParsed(before)
                      THEN /\ requests' = requests \cup {TimeRequest(id)}
                           /\ tasks' = Replied(t, "sync_camera_time", id,
                                               "get_time_failed", before)
                      ELSE \E reply \in Replies :
                             /\ requests' = requests \cup {TimeRequest(id), set}
                             /\ IF ~SetAccepted(reply)
                                  THEN tasks' = Replied(t, "sync_camera_time", id,
                                                        "set_time_failed", reply)
                                  ELSE \E after \in TimeReplies :
                                         tasks' =
                                           IF Restarts(was_streaming)
                                             THEN Goto(t, "sync_camera_time", id, "sy_stop",
                                                       [was |-> was_streaming,
                                                        reply |-> reply,
                                                        ret |-> SyncResult(before, after)])
                                             ELSE [Replied(t, "sync_camera_time", id,
                                                           SyncResult(before, after), reply)
                                                     EXCEPT ![t].was = was_streaming]
    /\ UNCHANGED <<schedVars, pureVars, lockVars, thumbnails_dir, cameras, settingsVars,
                   discovery>>
    /\ UNCHANGED <<processes, recording_processes, children, recordings,
                   last_rowid, files, clock, window>>

\* commands.rs 253-256: stop_stream, first hold (stream.rs 203-243); its
\* error would only be logged.
SyncStopStream(t) ==
    /\ At(t, "sy_stop")
    /\ LET id == tasks[t].cam
           h  == processes[id]
       IN  /\ processes' = [processes EXCEPT ![id] = NoChild]
           /\ children' = IF h # NoChild THEN Reap(h) ELSE children
           /\ tasks' = Goto(t, "sync_camera_time", id, "sy_stop_rec", [h |-> h])
    /\ UNCHANGED <<schedVars, pureVars, hostVars>>
    /\ UNCHANGED <<recording_processes, recordings, last_rowid, files,
                   clock, calls, window>>

\* stop_stream, second hold (stream.rs 245-274), then the dwell of
\* commands.rs 259.
SyncStopStreamRecording(t) ==
    /\ At(t, "sy_stop_rec")
    /\ LET id == tasks[t].cam
           h  == recording_processes[id]
       IN  /\ recording_processes' = [recording_processes EXCEPT ![id] = NoChild]
           /\ children' = IF h # NoChild THEN Reap(h) ELSE children
           /\ recordings' = IF h # NoChild
                              THEN recordings \ Unfinished(id)
                              ELSE recordings
           /\ tasks' = Goto(t, "sync_camera_time", id, "sy_start", [h2 |-> h])
    /\ UNCHANGED <<schedVars, pureVars, hostVars>>
    /\ UNCHANGED <<processes, last_rowid, files, clock, calls, window>>

\* commands.rs 262-266: start_stream (stream.rs 54-192); its error is only
\* logged and the command goes on to its result.
SyncStartStream(t) ==
    /\ At(t, "sy_start")
    /\ LET id == tasks[t].cam
       IN  IF StreamPresent(id)
             THEN /\ tasks' = [Done(t, "sync_camera_time", id, tasks[t].ret, Null)
                                 EXCEPT ![t].restart = "ok"]
                  /\ UNCHANGED children
             ELSE \E outcome \in {"prepare_failed", "spawn_failed", "spawned"} :
                    IF outcome = "spawned"
                      THEN /\ children' = Spawn("stream", id)
                           /\ tasks' = Goto(t, "sync_camera_time", id, "sy_insert",
                                            [h |-> NextHandle])
                      ELSE /\ tasks' = [Done(t, "sync_camera_time", id,
                                              tasks[t].ret, Null)
                                         EXCEPT ![t].restart = "failed"]
                           /\ UNCHANGED children
    /\ UNCHANGED <<schedVars, pureVars, hostVars>>
    /\ UNCHANGED <<processes, recording_processes, recordings, last_rowid,
                   files, clock, calls, window>>

\* start_stream's insert (stream.rs 194-200); nothing shared is touched
\* between it and the return of sync_camera_time.
SyncStartStreamInsert(t) ==
    /\ At(t, "sy_insert")
    /\ processes' = [processes EXCEPT ![tasks[t].cam] = tasks[t].h]
    /\ tasks' = [Done(t, "sync_camera_time", tasks[t].cam, tasks[t].ret, Null)
                   EXCEPT ![t].restart = "ok"]
    /\ UNCHANGED <<schedVars, pureVars, hostVars>>
    /\ UNCHANGED <<recording_processes, children, recordings, last_rowid,
                   files, clock, calls, window>>

\* The rows a camera id can have in the cameras table.
CameraRows ==
    {NoCamera,
     CameraRow("rtsp", Some("admin"), Some("secret"), Some("xaddr")),
     CameraRow("onvif", Some("admin"), Some("secret"), None),
     CameraRow("onvif", None, None, Some("xaddr")),
     CameraRow("onvif", Some(""), Some(""), Some("xaddr")),
     CameraRow("onvif", Some("admin"), Some("secret"), Some("xaddr"))}

\* The supervisor as constructed, over any cameras table.
OnvifInit ==
    /\ SupervisorInit
    /\ SchedulesLoaded
    /\ PluginsQuiet
    /\ SelectorQuiet
    /\ thumbnails_dir = "creatable"
    /\ cameras \in [Cameras -> CameraRows]
    /\ requests = {}
    /\ SettingsQuiet
    /\ DiscoveryQuiet
    /\ LockQuiet

OnvifNext ==
    \/ \E t \in Tasks : Return(t)
    \/ \E t \in Tasks, c \in Cameras : StartStream(t, c)
    \/ \E t \in Tasks : StartStreamInsert(t)
    \/ \E t \in Tasks, c \in Cameras : StopStream(t, c)
    \/ \E t \in Tasks : StopStreamRecording(t)
    \/ \E t \in Tasks, c \in Cameras : MovePtz(t, c)
    \/ \E t \in Tasks, c \in Cameras : StopPtz(t, c)
    \/ \E t \in Tasks, c \in Cameras : GetCameraTimeCommand(t, c)
    \/ \E t \in Tasks, c \in Cameras : SyncCameraTime(t, c)
    \/ \E t \in Tasks : SyncStopStream(t)
    \/ \E t \in Tasks : SyncStopStreamRecording(t)
    \/ \E t \in Tasks : SyncStartStream(t)
    \/ \E t \in Tasks : SyncStartStreamInsert(t)

OnvifSpec == OnvifInit /\ [][OnvifNext]_vars

\* ====================================================== encoder settings
\* The writers and readers of the one encoder_settings row: the startup
\* probe of db.rs and the settings commands of commands.rs.  Every SQL
\* statement runs on a connection of its own and is one step.

\* The fields of UpdateEncoderSettings in the order of their UPDATEs.
SettingsFields == <<"encoderMode", "gpuEncoder", "cpuEncoder", "preset", "quality">>

\* The patches the UI sends.
Patches ==
    {[encoderMode |-> m, gpuEncoder |-> g, cpuEncoder |-> c, preset |-> None,
      quality |-> q] :
        m \in {None, Some("GpuOnly")}, g \in {None, Some("hevc_qsv")},
        c \in {None, Some("libx265")}, q \in {None, Some(28)}}

\* The fields of the patch that are Some, in statement order.
Present(patch) == SelectSeq(SettingsFields, LAMBDA f : patch[f] # None)

\* UPDATE encoder_settings SET <field> = ?1 WHERE id = 1; gpu_encoder is
\* the one nullable column.
SetField(row, f, value) ==
    [row EXCEPT ![f] = IF f = "gpuEncoder" THEN Some(value) ELSE value]

\* All UPDATEs of a patch.
RECURSIVE ApplyAll(_, _, _)
ApplyAll(row, patch, todo) ==
    IF todo = <<>> THEN row
    ELSE ApplyAll(SetField(row, Head(todo), patch[Head(todo)][1]), patch, Tail(todo))

\* No settings command runs in the slot.
EFree(t) == etasks[t].pc = "idle"

\* The UI invokes a settings command; the call takes the lowest free slot.
EInvoke(t) ==
    /\ \A u \in Tasks : etasks[u].pc # "done"
    /\ calls < MaxCalls
    /\ calls' = calls + 1
    /\ EFree(t)
    /\ \A u \in Tasks : u < t => ~EFree(u)

\* The result reaches the UI.
EReturn(t) ==
    /\ etasks[t].pc = "done"
    /\ etasks' = [etasks EXCEPT ![t] = EIdle]
    /\ UNCHANGED <<supervisorVars, calls, schedVars, pureVars, lockVars, thumbnails_dir,
                   cameras, requests, probe, discovery>>

\* commands.rs 380-398: one SELECT of the row.
GetEncoderSettings(t) ==
    /\ EInvoke(t)
    /\ etasks' = [etasks EXCEPT ![t] = [EIdle EXCEPT !.op = "get_encoder_settings",
                                                     !.pc = "done", !.ret = "ok",
                                                     !.val = settings]]
    /\ UNCHANGED <<supervisorVars, schedVars, pureVars, lockVars, thumbnails_dir,
                   cameras, requests, probe, discovery>>

\* commands.rs 400-431: the connection is opened; with no field present no
\* statement runs and the call ends with "No fields to update".
UpdateEncoderSettings(t, patch) ==
    /\ EInvoke(t)
    /\ etasks' = [etasks EXCEPT ![t] =
                    IF Present(patch) = <<>>
                      THEN [EIdle EXCEPT !.op = "update_encoder_settings",
                                         !.pc = "done", !.ret = "no_fields"]
                      ELSE [EIdle EXCEPT !.op = "update_encoder_settings",
                                         !.pc = "statements", !.patch = patch,
                                         !.todo = Present(patch)]]
    /\ UNCHANGED <<supervisorVars, schedVars, pureVars, lockVars, thumbnails_dir,
                   cameras, requests, probe, discovery>>

\* commands.rs 407-426: the UPDATE of the next field that is present; a
\* failed statement ends the call with `?`.
UpdateEncoderSettingsStatement(t) ==
    /\ etasks[t].pc = "statements"
    /\ \A u \in Tasks : etasks[u].pc # "done"
    /\ LET f == Head(etasks[t].todo)
       IN  \E outcome \in {"updated", "statement_failed"} :
              IF outcome = "updated"
                THEN /\ settings' = SetField(settings, f, etasks[t].patch[f][1])
                     /\ etasks' = [etasks EXCEPT
                                     ![t].todo = Tail(etasks[t].todo),
                                     ![t].pc = IF Tail(etasks[t].todo) = <<>>
                                                 THEN "read" ELSE "statements"]
                ELSE /\ etasks' = [etasks EXCEPT ![t].pc = "done",
                                                 ![t].ret = outcome]
                     /\ UNCHANGED settings
    /\ UNCHANGED <<supervisorVars, calls, schedVars, plugin_log, network,
                   capabilities, selections, lockVars, thumbnails_dir, cameras, requests,
                   probe, discovery>>

\* commands.rs 436-441: the connection is dropped and the row is read back.
UpdateEncoderSettingsRead(t) ==
    /\ etasks[t].pc = "read"
    /\ \A u \in Tasks : etasks[u].pc # "done"
    /\ etasks' = [etasks EXCEPT ![t].pc = "done", ![t].ret = "ok",
                                ![t].val = settings]
    /\ UNCHANGED <<supervisorVars, calls, schedVars, pureVars, lockVars, thumbnails_dir,
                   cameras, requests, probe, discovery>>

\* The encoders detect_gpu_capabilities may prefer.
Preferred == {None, Some("h264_nvenc")}

\* db.rs 67-76: detection; an error or no preferred encoder ends the probe.
ProbeDetect ==
    /\ probe.pc = "detect"
    /\ \E outcome \in {"detect_failed", "detected"}, preferred \in Preferred :
          probe' = IF outcome = "detected" /\ preferred # None
                     THEN [pc |-> "update", preferred |-> preferred]
                     ELSE [pc |-> "done", preferred |-> None]
    /\ UNCHANGED <<supervisorVars, calls, schedVars, pureVars, lockVars, thumbnails_dir,
                   cameras, requests, etasks, discovery>>

\* A faulty variant of ProbeWrite: the probe writes whatever the row holds.
ProbeOverwrite(row, preferred) == [row EXCEPT !.gpuEncoder = preferred]

\* UPDATE encoder_settings SET gpu_encoder = ?1
\* WHERE id = 1 AND gpu_encoder IS NULL
ProbeWrite(row, preferred) ==
    IF row.gpuEncoder = None THEN [row EXCEPT !.gpuEncoder = preferred] ELSE row

\* db.rs 78-88: the one conditional UPDATE, which may fail.
ProbeUpdate ==
    /\ probe.pc = "update"
    /\ \E outcome \in {"updated", "statement_failed"} :
          settings' = IF outcome = "updated"
                        THEN ProbeWrite(settings, probe.preferred)
                        ELSE settings
    /\ probe' = [probe EXCEPT !.pc = "done"]
    /\ UNCHANGED <<supervisorVars, calls, schedVars, plugin_log, network,
                   capabilities, selections, lockVars, thumbnails_dir, cameras, requests,
                   etasks, discovery>>

\* The rows an earlier run may have left: the seed, or a gpu_encoder the
\* user or an earlier probe has set.
PersistedSettings ==
    {DefaultSettings, [DefaultSettings EXCEPT !.gpuEncoder = Some("h264_amf")]}

\* lib.rs 44-54: init_db has run and the probe is spawned.
SettingsInit ==
    /\ SupervisorInit
    /\ SchedulesLoaded
    /\ PluginsQuiet
    /\ settings \in PersistedSettings
    /\ capabilities = [availableEncoders |-> {}]
    /\ selections = <<>>
    /\ thumbnails_dir = "creatable"
    /\ WireQuiet
    /\ etasks = [t \in Tasks |-> EIdle]
    /\ probe = [pc |-> "detect", preferred |-> None]
    /\ DiscoveryQuiet
    /\ LockQuiet

SettingsNext ==
    \/ \E t \in Tasks : EReturn(t)
    \/ \E t \in Tasks : GetEncoderSettings(t)
    \/ \E t \in Tasks, patch \in Patches : UpdateEncoderSettings(t, patch)
    \/ \E t \in Tasks : UpdateEncoderSettingsStatement(t)
    \/ \E t \in Tasks : UpdateEncoderSettingsRead(t)
    \/ ProbeDetect
    \/ ProbeUpdate

SettingsSpec == SettingsInit /\ [][SettingsNext]_vars

\* ============================================================= discovery
\* onvif.rs 20-103: discover_devices probes the addresses of the local /24
\* through buffer_unordered.  The code scans 254 addresses with 50 probes in
\* flight; the model scans MaxAddresses with CONCURRENCY_LIMIT in flight.

\* format!("{}.{}", subnet_base, i)
Address(i) == <<"subnet_base", i>>

\* The last octets scanned: for i in 1..=254
Octets == 1..MaxAddresses

\* What becomes of one probe_ip call: the socket cannot be bound, the
\* datagram cannot be sent, nothing arrives within PROBE_TIMEOUT_MS, or the
\* first datagram that arrives is or is not a ProbeMatch.
ProbeOutcomes == {"bind_failed", "send_failed", "timeout", "unparsable", "probe_match"}

\* onvif.rs 62-103 with parse_probe_match 105-155: the device carries the
\* address that was probed, whoever answered.
probe_ip(i, outcome) ==
    IF outcome = "probe_match"
      THEN Some([address |-> Address(i), xaddr |-> Some("xaddr")])
      ELSE None

\* onvif.rs 49-56: a device is pushed unless one of its address is there.
RECURSIVE Collect(_, _)
Collect(results, devices) ==
    IF results = <<>> THEN devices
    ELSE LET res == Head(results)
         IN  Collect(Tail(results),
                     IF res # None
                        /\ ~\E k \in DOMAIN devices : devices[k].address = res[1].address
                       THEN Append(devices, res[1])
                       ELSE devices)

\* A faulty variant of HasRoom: the buffer takes any number of futures.
HasRoomAlways(in_flight) == TRUE

\* buffer_unordered(CONCURRENCY_LIMIT) polls the next future of the stream
\* only while fewer than the limit are in flight.
HasRoom(in_flight) == Cardinality(in_flight) < CONCURRENCY_LIMIT

\* onvif.rs 20-36: the local address is looked up and the targets listed.
DiscoverDevices ==
    /\ discovery.pc = "idle"
    /\ \E local_ip \in {"none", "v6", "v4"} :
          discovery' = IF local_ip = "v4"
                         THEN [discovery EXCEPT !.pc = "scanning"]
                         ELSE [discovery EXCEPT !.pc = "done", !.ret = local_ip]
    /\ UNCHANGED <<supervisorVars, calls, schedVars, pureVars, lockVars, thumbnails_dir,
                   cameras, requests, settingsVars>>

\* The buffer starts the probe of the next target.
ProbeLaunch ==
    /\ discovery.pc = "scanning"
    /\ discovery.launched < MaxAddresses
    /\ HasRoom(discovery.in_flight)
    /\ discovery' = [discovery EXCEPT
                       !.launched = @ + 1,
                       !.in_flight = @ \cup {discovery.launched + 1},
                       !.probes = Append(@, discovery.launched + 1)]
    /\ UNCHANGED <<supervisorVars, calls, schedVars, pureVars, lockVars, thumbnails_dir,
                   cameras, requests, settingsVars>>

\* A probe in flight completes and the buffer yields its result.
ProbeComplete(i) ==
    /\ discovery.pc = "scanning"
    /\ i \in discovery.in_flight
    /\ \E outcome \in ProbeOutcomes :
          discovery' = [discovery EXCEPT
                          !.in_flight = @ \ {i},
                          !.results = Append(@, probe_ip(i, outcome))]
    /\ UNCHANGED <<supervisorVars, calls, schedVars, pureVars, lockVars, thumbnails_dir,
                   cameras, requests, settingsVars>>

\* onvif.rs 44-59: collect() is over when the stream is exhausted and no
\* probe is in flight; the devices are collected and returned.
DiscoverDevicesCollect ==
    /\ discovery.pc = "scanning"
    /\ discovery.launched = MaxAddresses
    /\ discovery.in_flight = {}
    /\ discovery' = [discovery EXCEPT !.pc = "done", !.ret = "ok",
                                      !.devices = Collect(discovery.results, <<>>)]
    /\ UNCHANGED <<supervisorVars, calls, schedVars, pureVars, lockVars, thumbnails_dir,
                   cameras, requests, settingsVars>>

DiscoveryInit == Init

DiscoveryNext ==
    \/ DiscoverDevices
    \/ ProbeLaunch
    \/ \E i \in Octets : ProbeComplete(i)
    \/ DiscoverDevicesCollect

DiscoverySpec == DiscoveryInit /\ [][DiscoveryNext]_vars

\* The runtime polls every future that can make progress, and every probe's
\* receive is bounded by PROBE_TIMEOUT_MS.
DiscoveryFairSpec == DiscoverySpec /\ WF_vars(DiscoveryNext)

\* ================================================ one recording restarted
\* No start_recording command is under way.
NoStartRunning == \A t \in Tasks : tasks[t].op # "start_recording"

\* No stop_recording command is under way.
NoStopRunning == \A t \in Tasks : tasks[t].op # "stop_recording"

\* The recording commands with at most one start_recording and at most one
\* stop_recording under way at a time: a stop_recording interleaves with
\* the start_recording that follows it and with nothing else.
RestartNext ==
    \/ \E t \in Tasks : Return(t)
    \/ \E t \in Tasks, c \in Cameras :
          NoStartRunning /\ StartRecording(t, "start_recording", c)
    \/ \E t \in Tasks : StartRecordingRow(t)
    \/ \E t \in Tasks : StartRecordingInsert(t)
    \/ \E h \in Handles : RecordingWrites(h)
    \/ \E t \in Tasks, c \in Cameras : NoStopRunning /\ StopRecording(t, c)
    \/ \E t \in Tasks : StopRecordingSelect(t)
    \/ \E t \in Tasks : StopRecordingExists(t)
    \/ \E t \in Tasks : StopRecordingRemux(t)
    \/ \E t \in Tasks : StopRecordingUpdate(t)

RestartSpec == Init /\ [][RestartNext]_vars

\* ============================================ time sync while recording
\* sync_camera_time next to the commands that start a stream and a
\* recording, on ONVIF cameras with credentials.
SyncNext ==
    \/ \E t \in Tasks : Return(t)
    \/ \E t \in Tasks, c \in Cameras : StartStream(t, c)
    \/ \E t \in Tasks : StartStreamInsert(t)
    \/ \E t \in Tasks, c \in Cameras : StartRecording(t, "start_recording", c)
    \/ \E t \in Tasks : StartRecordingRow(t)
    \/ \E t \in Tasks : StartRecordingInsert(t)
    \/ \E h \in Handles : RecordingWrites(h)
    \/ \E t \in Tasks, c \in Cameras : SyncCameraTime(t, c)
    \/ \E t \in Tasks : SyncStopStream(t)
    \/ \E t \in Tasks : SyncStopStreamRecording(t)
    \/ \E t \in Tasks : SyncStartStream(t)
    \/ \E t \in Tasks : SyncStartStreamInsert(t)

SyncSpec == Init /\ [][SyncNext]_vars

\* ================================================= children that end alone
\* A transcoder ends on its own: the camera went away, the input broke or
\* the process was killed from outside.  Its handle stays where it is: no
\* code of the supervisor polls a child (there is no try_wait), and only
\* the stop paths and the shutdown drain wait for one.
ChildExits(h) ==
    /\ Delivered
    /\ Running(h)
    /\ children' = [children EXCEPT ![h].st = "exited"]
    /\ UNCHANGED <<schedVars, pureVars, hostVars>>
    /\ UNCHANGED <<processes, recording_processes, recordings, last_rowid,
                   files, clock, tasks, calls, window>>

\* The start and stop commands of streams and the start of recordings,
\* with children that may end at any time.
ExitNext ==
    \/ \E t \in Tasks : Return(t)
    \/ \E t \in Tasks, c \in Cameras : StartStream(t, c)
    \/ \E t \in Tasks : StartStreamInsert(t)
    \/ \E t \in Tasks, c \in Cameras : StopStream(t, c)
    \/ \E t \in Tasks : StopStreamRecording(t)
    \/ \E t \in Tasks, c \in Cameras : StartRecording(t, "start_recording", c)
    \/ \E t \in Tasks : StartRecordingRow(t)
    \/ \E t \in Tasks : StartRecordingInsert(t)
    \/ \E h \in Handles : ChildExits(h)

ExitSpec == Init /\ [][ExitNext]_vars

\* ============================================== schedules being patched
\* update_recording_schedule with every combination of cron_expression,
\* is_enabled, duration_minutes and fps in `updates`, one command after the
\* other, once the loader is through; no job fires meanwhile.
PatchNext ==
    \/ \E t \in Tasks : SReturn(t)
    \/ \E t \in Tasks, id \in ScheduleIds, e \in ScheduledCrons \cup {Null},
          en \in Toggles, d \in Durations, f \in FpsValues :
          NoneRunning /\ UpdateRecordingSchedule(t, id, e, en, d, f)
    \/ \E t \in Tasks : UpdateRecordingScheduleUpdate(t)
    \/ \E t \in Tasks : UpdateRecordingScheduleSelect(t)
    \/ \E t \in Tasks : UpdateRecordingScheduleRegister(t)

PatchSpec == CronInit /\ [][PatchNext]_vars

\* ============================================================ the mutexes
\* Every operation that takes a mutex, as the sequence of its lock
\* operations and of the work done in between.  Work is named by what it
\* is: a map call (contains_key, insert, remove, keys, drain), kill or
\* wait on a child, spawn of a transcoder, command (an external program
\* run to its end), sql (a statement or a transaction) or await (a
\* network exchange, a sleep or a call into the cron engine).

\* mutex.lock(): the guard is taken.
Lock(m) == [do |-> "lock", on |-> m]

\* The guard goes out of scope or is dropped.
Unlock(m) == [do |-> "unlock", on |-> m]

Work(what) == [do |-> what, on |-> "none"]

\* stream.rs 54-200: the presence check in one block, and the insert in
\* another once the transcoder is spawned.  A call that fails before the
\* spawn ends like the one that found the entry.
start_stream(present) ==
    <<Lock("processes"), Work("contains_key"), Unlock("processes")>>
    \o (IF present THEN <<>>
        ELSE <<Work("spawn"), Lock("processes"), Work("insert"),
               Unlock("processes")>>)

\* A faulty variant of stop_stream: one block for both maps, the recording
\* mutex taken while the streams mutex is held.
stop_stream_nested(stream_found, recording_found) ==
    <<Lock("processes"), Work("remove")>>
    \o (IF stream_found
          THEN <<Work("kill"), Work("wait"), Work("command")>> ELSE <<>>)
    \o <<Lock("recording_processes"), Work("remove")>>
    \o (IF recording_found
          THEN <<Work("kill"), Work("wait"), Work("sql")>> ELSE <<>>)
    \o <<Unlock("recording_processes"), Unlock("processes")>>

\* stream.rs 203-274: two blocks.  In the first the streams guard lives
\* from 208 to 243, over remove, kill, wait and the run of `kill -9`; in
\* the second the recording guard lives from 247 to 265, over remove, kill,
\* wait and the DELETE.
stop_stream(stream_found, recording_found) ==
    <<Lock("processes"), Work("remove")>>
    \o (IF stream_found
          THEN <<Work("kill"), Work("wait"), Work("command")>> ELSE <<>>)
    \o <<Unlock("processes"), Lock("recording_processes"), Work("remove")>>
    \o (IF recording_found
          THEN <<Work("kill"), Work("wait"), Work("sql")>> ELSE <<>>)
    \o <<Unlock("recording_processes")>>

\* stream.rs 295-502: the presence check, then the camera row, the spawn
\* and the INSERT with no guard, then the insert.
start_recording_internal(present) ==
    <<Lock("recording_processes"), Work("contains_key"),
      Unlock("recording_processes")>>
    \o (IF present THEN <<>>
        ELSE <<Work("sql"), Work("spawn"), Work("sql"),
               Lock("recording_processes"), Work("insert"),
               Unlock("recording_processes")>>)

\* stream.rs 520-654: the guard lives from 531 to 551, over remove, kill
\* and wait; the SELECT, the remux and the UPDATE follow with no guard.
stop_recording_internal(found) ==
    <<Lock("recording_processes"), Work("remove")>>
    \o (IF found THEN <<Work("kill"), Work("wait")>> ELSE <<>>)
    \o <<Unlock("recording_processes"), Work("sql"), Work("command"),
         Work("sql")>>

\* commands.rs 748-758
get_recording_cameras ==
    <<Lock("recording_processes"), Work("keys"),
      Unlock("recording_processes")>>

\* commands.rs 212-268: the cameras table, was_streaming under the streams
\* guard (221-224), the three exchanges with the camera, and the restart.
sync_camera_time(was_streaming, recording_found) ==
    <<Work("sql"), Lock("processes"), Work("contains_key"),
      Unlock("processes"), Work("await")>>
    \o (IF was_streaming
          THEN stop_stream(TRUE, recording_found) \o <<Work("await")>>
               \o start_stream(FALSE)
          ELSE <<>>)

\* scheduler.rs 50-74: the closure returns when the start fails, else it
\* sleeps and stops the recording.
job_closure(present, found) ==
    start_recording_internal(present)
    \o (IF present THEN <<>>
        ELSE <<Work("await")>> \o stop_recording_internal(found))

\* scheduler.rs 29-89: the job is added to the engine, then the job map is
\* locked for the insert.
add_schedule_locks ==
    <<Work("await"), Lock("job_map"), Work("insert"), Unlock("job_map")>>

\* scheduler.rs 91-103: the job map guard lives over the removal from the
\* engine.
remove_schedule_locks(found) ==
    <<Lock("job_map"), Work("remove")>>
    \o (IF found THEN <<Work("await")>> ELSE <<>>)
    \o <<Unlock("job_map")>>

\* commands.rs 501-574: the scheduler guard is taken at 568 and lives to
\* the end of the block.
add_recording_schedule(is_enabled) ==
    <<Work("sql"), Work("sql")>>
    \o (IF is_enabled
          THEN <<Lock("scheduler")>> \o add_schedule_locks
               \o <<Unlock("scheduler")>>
          ELSE <<>>)

\* commands.rs 577-703: the scheduler guard is taken at 687 and lives over
\* remove_schedule and add_schedule.
update_recording_schedule(rearm, old_enabled, is_enabled) ==
    <<Work("sql"), Work("sql"), Work("sql")>>
    \o (IF rearm
          THEN <<Lock("scheduler")>>
               \o (IF old_enabled THEN remove_schedule_locks(TRUE) ELSE <<>>)
               \o (IF is_enabled THEN add_schedule_locks ELSE <<>>)
               \o <<Unlock("scheduler")>>
          ELSE <<>>)

\* commands.rs 705-727: the guard is dropped at 713, before the DELETE.
delete_recording_schedule(found) ==
    <<Lock("scheduler")>> \o remove_schedule_locks(found)
    \o <<Unlock("scheduler"), Work("sql")>>

\* lib.rs 182-253: the enabled rows are read, then add_schedule runs for
\* each of them under one scheduler guard.
load_schedules(rows) ==
    <<Work("sql"), Lock("scheduler")>>
    \o (IF rows THEN add_schedule_locks ELSE <<>>)
    \o <<Unlock("scheduler")>>

\* lib.rs 122-149: the two maps are drained one after the other, each
\* under its own guard, which lives over kill and wait.
close_requested ==
    <<Lock("processes"), Work("drain"), Work("kill"), Work("wait"),
      Unlock("processes"),
      Lock("recording_processes"), Work("drain"), Work("kill"), Work("wait"),
      Unlock("recording_processes")>>

\* What a thread may be asked to run: the facade commands, the closure of a
\* fired job, the startup loader and the close handler.
Operations ==
    {[op |-> "start_stream", todo |-> start_stream(p)] : p \in BOOLEAN}
    \cup {[op |-> "stop_stream", todo |-> stop_stream(s, r)] :
             s \in BOOLEAN, r \in BOOLEAN}
    \cup {[op |-> "start_recording", todo |-> start_recording_internal(p)] :
             p \in BOOLEAN}
    \cup {[op |-> "stop_recording", todo |-> stop_recording_internal(f)] :
             f \in BOOLEAN}
    \cup {[op |-> "get_recording_cameras", todo |-> get_recording_cameras]}
    \cup {[op |-> "sync_camera_time", todo |-> sync_camera_time(w, r)] :
             w \in BOOLEAN, r \in BOOLEAN}
    \cup {[op |-> "job", todo |-> job_closure(p, f)] :
             p \in BOOLEAN, f \in BOOLEAN}
    \cup {[op |-> "add_recording_schedule",
           todo |-> add_recording_schedule(e)] : e \in BOOLEAN}
    \cup {[op |-> "update_recording_schedule",
           todo |-> update_recording_schedule(a, o, e)] :
             a \in BOOLEAN, o \in BOOLEAN, e \in BOOLEAN}
    \cup {[op |-> "delete_recording_schedule",
           todo |-> delete_recording_schedule(f)] : f \in BOOLEAN}
    \cup {[op |-> "load_schedules", todo |-> load_schedules(r)] :
             r \in BOOLEAN}
    \cup {[op |-> "close_requested", todo |-> close_requested]}

\* The thread has something left to do, and this is its next step.
Busy(t) == threads[t].todo # <<>>
NextStep(t) == Head(threads[t].todo)

\* The step is done; a thread with nothing left is free again.
Advance(t) ==
    threads' = [threads EXCEPT ![t] =
                  IF Len(threads[t].todo) = 1
                    THEN [op |-> "idle", todo |-> <<>>]
                    ELSE [threads[t] EXCEPT !.todo = Tail(@)]]

\* An operation is handed to the lowest free thread.
Begin(t, operation) ==
    /\ calls < MaxCalls
    /\ calls' = calls + 1
    /\ ~Busy(t)
    /\ \A u \in Tasks : u < t => Busy(u)
    /\ threads' = [threads EXCEPT ![t] = operation]
    /\ UNCHANGED <<supervisorVars, schedVars, pureVars, thumbnails_dir,
                   cameras, requests, settingsVars, discovery, held>>

\* lock(): granted when no thread owns the mutex; the thread waits
\* otherwise (a thread that asks for a mutex it owns waits for ever).
Acquire(t) ==
    /\ Busy(t)
    /\ NextStep(t).do = "lock"
    /\ held[NextStep(t).on] = 0
    /\ held' = [held EXCEPT ![NextStep(t).on] = t]
    /\ Advance(t)
    /\ UNCHANGED <<supervisorVars, calls, schedVars, pureVars, thumbnails_dir,
                   cameras, requests, settingsVars, discovery>>

\* The guard is dropped.
Release(t) ==
    /\ Busy(t)
    /\ NextStep(t).do = "unlock"
    /\ held' = [held EXCEPT ![NextStep(t).on] = 0]
    /\ Advance(t)
    /\ UNCHANGED <<supervisorVars, calls, schedVars, pureVars, thumbnails_dir,
                   cameras, requests, settingsVars, discovery>>

\* Anything else the thread does comes to an end.
Proceed(t) ==
    /\ Busy(t)
    /\ NextStep(t).do \notin {"lock", "unlock"}
    /\ Advance(t)
    /\ UNCHANGED <<supervisorVars, calls, schedVars, pureVars, thumbnails_dir,
                   cameras, requests, settingsVars, discovery, held>>

LockNext ==
    \/ \E t \in Tasks, operation \in Operations : Begin(t, operation)
    \/ \E t \in Tasks : Acquire(t)
    \/ \E t \in Tasks : Release(t)
    \/ \E t \in Tasks : Proceed(t)

LockSpec == Init /\ [][LockNext]_vars

\* Every thread that can take a step takes one in the end: the runtime
\* schedules every task and every child that is killed and waited for
\* ends.
LockFairSpec ==
    LockSpec /\ \A t \in Tasks : WF_vars(Acquire(t) \/ Release(t) \/ Proceed(t))

\* ================================================================ claims
\* The step is the first step of a call of operation o on camera id in slot t.
Enters(t, o, id) ==
    tasks[t].pc = "idle" /\ tasks'[t].op = o /\ tasks'[t].cam = id

\* With this step the call in slot t returns result r.
Returns(t, r) ==
    tasks[t].pc # "done" /\ tasks'[t].pc = "done" /\ tasks'[t].ret = r

StartsRecording(t) == tasks[t].op \in {"start_recording", "job"}

\* The running children of one kind for one camera.
RunningOf(k, id) ==
    {h \in Handles : Running(h) /\ children[h].kind = k /\ children[h].cam = id}

\* C1: start_stream(c) called when c already has a streams entry (the second
\* of two calls in sequence with no stop in between) returns the playlist
\* path streams/{c}/index.m3u8, spawns nothing and leaves the entry as it
\* is; every start_stream that succeeds returns that same path and leaves
\* c with one entry, which for the call that spawned is its own one child.
C1_IdempotentStartStream ==
    [][\A t \in Tasks, id \in Cameras :
         /\ (Enters(t, "start_stream", id) /\ processes[id] # NoChild)
              => /\ Returns(t, "ok")
                 /\ tasks'[t].val = <<"streams", id, "index.m3u8">>
                 /\ processes' = processes
                 /\ children' = children
         /\ (tasks'[t].op = "start_stream" /\ tasks'[t].cam = id
               /\ Returns(t, "ok"))
              => /\ tasks'[t].val = <<"streams", id, "index.m3u8">>
                 /\ processes'[id] # NoChild
                 /\ tasks'[t].h # NoChild
                      => /\ processes'[id] = tasks'[t].h
                         /\ children'[tasks'[t].h].kind = "stream"
                         /\ children'[tasks'[t].h].cam = id
       ]_vars

\* C1 witness: a start_stream has returned the path without spawning, the
\* entry of an earlier call being in the map.
C1_Witness ==
    \E t \in Tasks :
       /\ tasks[t].pc = "done" /\ tasks[t].op = "start_stream"
       /\ tasks[t].ret = "ok" /\ tasks[t].h = NoChild
       /\ processes[tasks[t].cam] # NoChild
       /\ Cardinality(RunningOf("stream", tasks[t].cam)) = 1

\* C2: concurrent start_stream(c) calls spawn at most one transcoder child
\* for c: no two stream children of one camera run at the same time.
C2_AtMostOneStreamChild ==
    \A id \in Cameras : Cardinality(RunningOf("stream", id)) <= 1

\* C3: a start_recording whose spawn fails returns the error having
\* inserted no row and stored no handle, and a recordings row is inserted
\* only by a call that has already spawned its child.
C3_SpawnBeforeRow ==
    [][/\ \A t \in Tasks :
            (StartsRecording(t)' /\ Returns(t, "spawn_failed"))
              => /\ recordings' = recordings
                 /\ recording_processes' = recording_processes
                 /\ children' = children
       /\ \A r \in recordings' :
            r \notin recordings /\ ~r.is_finished
              => \E t \in Tasks :
                    /\ StartsRecording(t) /\ tasks[t].pc = "sr_db"
                    /\ r.child = tasks[t].h
                    /\ Running(tasks[t].h)
       ]_vars

\* C3 witness: a start_recording has returned the spawn error.
C3_Witness ==
    \E t \in Tasks :
       /\ tasks[t].pc = "done" /\ StartsRecording(t)
       /\ tasks[t].ret = "spawn_failed"

\* The step belongs to a stop_recording of camera id (the command, or the
\* stop of a job closure).
StopsRecording(t, id) ==
    /\ tasks'[t] # tasks[t]
    /\ tasks'[t].cam = id
    /\ \/ tasks'[t].op = "stop_recording"
       \/ tasks'[t].op = "job" /\ tasks[t].pc \in {"job_sleep", "sp_select",
                                                  "sp_exists", "sp_remux",
                                                  "sp_update"}

C5_FailFastAlreadyRecording ==
    [][\A t \in Tasks, id \in Cameras :
         (/\ \/ Enters(t, "start_recording", id)
             \/ Enters(t, "job", id)
          /\ recording_processes[id] # NoChild)
           => /\ Returns(t, "already_recording")
              /\ children' = children
              /\ recordings' = recordings
              /\ files' = files
              /\ recording_processes' = recording_processes
       ]_vars

\* C5 witness: a start_recording has returned the already-in-progress error
\* and the recording it ran into is still in the map.
C5_Witness ==
    \E t \in Tasks :
       /\ tasks[t].pc = "done" /\ StartsRecording(t)
       /\ tasks[t].ret = "already_recording"
       /\ Running(recording_processes[tasks[t].cam])

\* The call in slot t has passed the fail-fast check of start_recording.
PassedCheck(t) == StartsRecording(t) /\ tasks[t].pc \in {"sr_db", "sr_insert"}

\* C6: of a scheduler-fired and a facade start_recording of one camera that
\* interleave, only one gets past the check, so that there is at most one
\* running recording child of the camera.
C6_OneStartRecordingWins ==
    \A t1, t2 \in Tasks :
       (/\ tasks[t1].op = "job" /\ tasks[t2].op = "start_recording"
        /\ tasks[t1].cam = tasks[t2].cam)
         => /\ ~(PassedCheck(t1) /\ PassedCheck(t2))
            /\ (PassedCheck(t1) \/ PassedCheck(t2))
                 => Cardinality(RunningOf("recording", tasks[t1].cam)) <= 1

\* C7: when a stop_recording(c) that found the temp file and whose remux
\* succeeded returns, the final file is on disk and exactly one row has
\* is_finished=1 and that final name.
C7_FinalizeBijection ==
    \A t \in Tasks :
       (/\ tasks[t].pc = "done" /\ tasks[t].op \in {"stop_recording", "job"}
        /\ tasks[t].ret = "ok" /\ tasks[t].final # Null)
         => /\ tasks[t].final \in files
            /\ Cardinality({r \in recordings :
                               r.is_finished /\ r.filename = tasks[t].final}) = 1

C9_NoUnfinishedRowAfterStopStream ==
    \A t \in Tasks :
       (tasks[t].pc = "done" /\ tasks[t].op = "stop_stream"
          /\ tasks[t].ret = "ok")
         => Unfinished(tasks[t].cam) = {}

\* C10: once the close handler has run both maps are empty and no child
\* spawned by start_stream or start_recording is running.
C10_ShutdownDrain ==
    window = "closed"
      => /\ \A id \in Cameras : processes[id] = NoChild
         /\ \A id \in Cameras : recording_processes[id] = NoChild
         /\ \A h \in Handles : ~Running(h)

\* The number of whitespace-separated fields of E: the positions where a
\* field begins.
C11_Fields(E) ==
    Cardinality({i \in 1..Len(E) :
                    E[i] # " " /\ (i = 1 \/ E[i - 1] = " ")})

\* What is to be stored for E, when anything is.
C11_Canonical(E) == IF C11_Fields(E) = 5 THEN <<"0", " ">> \o E ELSE E

\* C11: for every expression E given to add_recording_schedule or
\* update_recording_schedule: a five-field E whose "0 "+E is valid is stored
\* as "0 "+E, a valid E of another length is stored as it came, and an
\* invalid E makes the command return an error in the step it was called,
\* with the schedule rows, the engine and the job map as they were.
C11_CronCanonicalization ==
    [][\A t \in Tasks :
          /\ (SFree(t) /\ stasks'[t].pc # "idle" /\ stasks'[t].expr # Null)
               => IF Parses(C11_Canonical(stasks'[t].expr))
                    THEN /\ stasks'[t].ret # "invalid_cron"
                         /\ stasks'[t].op = "add_recording_schedule"
                              => \E r \in recording_schedules' :
                                    /\ r \notin recording_schedules
                                    /\ r.id = stasks'[t].id
                                    /\ r.cron_expression =
                                          C11_Canonical(stasks'[t].expr)
                    ELSE /\ stasks'[t].pc = "done"
                         /\ stasks'[t].ret = "invalid_cron"
                         /\ UNCHANGED <<recording_schedules, engine, job_map>>
          /\ (stasks[t].pc = "us_update" /\ stasks'[t].pc = "us_select"
                 /\ stasks[t].expr # Null)
               => \A r \in recording_schedules' :
                     r.id = stasks[t].id
                       => r.cron_expression = C11_Canonical(stasks[t].expr)
      ]_vars

\* C11 witness: an update with an invalid expression was rejected while the
\* row an add of a five-field expression with a leading blank had inserted
\* holds "0 " and that expression, and a row holds a six-field expression
\* an update gave it.
C11_Witness ==
    /\ \E t \in Tasks :
          /\ stasks[t].op = "update_recording_schedule"
          /\ stasks[t].pc = "done" /\ stasks[t].ret = "invalid_cron"
          /\ stasks[t].expr = CronText(5, 5, FALSE)
    /\ \E r \in recording_schedules :
          r.cron_expression = <<"0", " ">> \o CronText(5, 0, TRUE)
    /\ \E r \in recording_schedules :
          r.cron_expression = CronText(6, 0, FALSE)

\* C12: when a job closure whose start_recording succeeded has stopped the
\* recording of its camera with the temp file present and the remux
\* successful, the row of the recording it started is finished.
C12_FiredRecordingFinalized ==
    \A t \in Tasks :
       (tasks[t].op = "job" /\ tasks[t].pc = "done" /\ tasks[t].ret = "ok"
          /\ tasks[t].final # Null)
         => \A r \in recordings : r.child = tasks[t].own => r.is_finished

\* C13: a job closure calls stop_recording only after its start_recording
\* succeeded, and the child its stop takes out of the map and kills is the
\* one that start_recording spawned.
C13_TimerStopsOwnRecording ==
    [][\A t \in Tasks :
          (tasks'[t].op = "job" /\ tasks'[t].pc = "sp_select"
             /\ tasks[t].pc # "sp_select")
            => /\ tasks[t].pc = "job_sleep"
               /\ tasks[t].own # NoChild
               /\ tasks'[t].h \in {NoChild, tasks[t].own}
      ]_vars

\* C14: a schedule whose job remove_schedule has taken out of the map has
\* no job left in the engine that could fire (closures that fired before
\* are tasks of their own and are not touched).
C14_RemovedScheduleNeverFires ==
    \A s \in ScheduleIds :
       job_map[s] = NoJob => \A j \in engine : j.schedule_id # s

\* The jobs the engine holds for schedule s.
C15_JobsOf(s) == {j \in engine : j.schedule_id = s}

\* C15: once the loader and every schedule command have returned, the
\* engine holds exactly one job for each enabled row, which is the job the
\* map names, and none for a disabled or deleted schedule.
C15_OneJobPerEnabledSchedule ==
    (loader.pc = "done" /\ \A t \in Tasks : SFree(t))
      => \A s \in ScheduleIds :
            IF \E r \in recording_schedules : r.id = s /\ r.is_enabled
              THEN /\ Cardinality(C15_JobsOf(s)) = 1
                   /\ \A j \in C15_JobsOf(s) : job_map[s] = j.guid
              ELSE C15_JobsOf(s) = {}

\* The capability flag that announces op on plugin p.
C16_Capable(p, op) ==
    IF op \in PtzOps THEN supports_ptz(p) ELSE supports_time_sync(p)

\* C16: for every plugin and every one of ptz_move, ptz_stop,
\* get_camera_time and set_camera_time, a call on a plugin whose capability
\* flag is false returns the not-supported error and sends nothing.
C16_UnsupportedOpHasNoEffect ==
    [][\A p \in Plugins, op \in PtzOps \cup TimeOps :
          (/\ Len(plugin_log') = Len(plugin_log) + 1
           /\ plugin_log'[Len(plugin_log')].plugin = p
           /\ plugin_log'[Len(plugin_log')].op = op
           /\ ~C16_Capable(p, op))
            => /\ plugin_log'[Len(plugin_log')].result
                    \in {"PTZ not supported by this plugin",
                         "Time sync not supported by this plugin"}
               /\ (op \in PtzOps) =
                    (plugin_log'[Len(plugin_log')].result
                       = "PTZ not supported by this plugin")
               /\ network' = network
               /\ UNCHANGED <<supervisorVars, hostVars, schedVars>>
      ]_vars

\* C16 witness: both a PTZ and a time operation were called on the UVC
\* plugin and returned their not-supported errors, with nothing sent.
C16_Witness ==
    /\ Len(plugin_log) = 2
    /\ plugin_log[1] = [plugin |-> "uvc", op |-> "ptz_stop",
                        result |-> "PTZ not supported by this plugin"]
    /\ plugin_log[2] = [plugin |-> "uvc", op |-> "set_camera_time",
                        result |-> "Time sync not supported by this plugin"]
    /\ network = 0

\* The GPU and the CPU configuration for the intent and fps of selection r.
C17_GpuConfig(r) ==
    IF r.intent = "streaming"
      THEN build_gpu_config_streaming(Selector, settings.gpuEncoder[1], r.fps)
      ELSE build_gpu_config_recording(Selector, settings.gpuEncoder[1])

C17_CpuConfig(r) ==
    IF r.intent = "streaming" THEN build_cpu_config_streaming(Selector, r.fps)
    ELSE build_cpu_config_recording(Selector)

\* C17: every selection follows the mode table: in Auto the GPU config of
\* gpu_encoder iff gpu_encoder is set, available and the functional test
\* passed, else the CPU config; in GpuOnly the GPU config of gpu_encoder; in
\* CpuOnly the CPU config.
C17_ModeTable ==
    \A i \in DOMAIN selections :
       LET r == selections[i]
       IN  /\ settings.encoderMode = "Auto"
                => IF /\ settings.gpuEncoder # None
                      /\ \E e \in capabilities.availableEncoders :
                            settings.gpuEncoder = Some(e)
                      /\ test_encoder(r.outcome)
                     THEN r.result = C17_GpuConfig(r)
                     ELSE r.result = C17_CpuConfig(r)
           /\ settings.encoderMode = "GpuOnly"
                => /\ r.result.kind = "config"
                   /\ r.result.is_gpu
                   /\ Some(r.result.codec) = settings.gpuEncoder
           /\ settings.encoderMode = "CpuOnly"
                => r.result = C17_CpuConfig(r)

\* C18: with encoder_mode GpuOnly and gpu_encoder unset, the selection that
\* start_stream and start_recording ask for ends in an error result.
C18_GpuOnlyUnsetIsError ==
    (settings.encoderMode = "GpuOnly" /\ settings.gpuEncoder = None)
      => \A i \in DOMAIN selections : selections[i].result.kind = "error"

C20_TestFailureFallsBack ==
    \A i \in DOMAIN selections :
       (/\ selections[i].tested
        /\ ~(/\ selections[i].outcome.ran
              /\ selections[i].outcome.success
              /\ selections[i].outcome.frame))
         => /\ selections[i].result.kind = "config"
            /\ ~selections[i].result.is_gpu

\* C28: when the remux of stop_recording exits non-zero the call returns an
\* error and has changed neither a row of recordings nor a file: the row
\* it selected keeps is_finished = 0, its temporary filename and its null
\* end_time, the temp file stays and no thumbnail name was composed.
C28_RemuxFailureLeavesRow ==
    [][\A t \in Tasks :
         (tasks[t].pc = "sp_remux" /\ tasks'[t].pc = "done"
            /\ tasks'[t].ret = "remux_failed")
         => /\ recordings' = recordings
            /\ files' = files
            /\ tasks'[t].thumb = Null
            /\ tasks'[t].final = Null
            /\ \A r \in recordings' :
                  (r.id = tasks[t].rid /\ ~r.is_finished)
                  => r.filename = tasks[t].fname /\ r.end_time = Null]_vars

\* A stop_recording has returned the remux error; its row is unfinished
\* and its temp file is still there.
C28_Witness ==
    \E t \in Tasks :
       /\ tasks[t].pc = "done"
       /\ tasks[t].op = "stop_recording"
       /\ tasks[t].ret = "remux_failed"
       /\ tasks[t].fname \in files
       /\ \E r \in recordings :
             /\ r.id = tasks[t].rid
             /\ ~r.is_finished
             /\ r.filename = tasks[t].fname
             /\ r.end_time = Null
             /\ r.thumbnail = Null

C30_ThumbnailFailureNotFatal ==
    \A t \in Tasks :
       (tasks[t].pc = "done" /\ tasks[t].final # Null) => tasks[t].ret = "ok"

C22_SyncRestartsStream ==
    [][\A t \in Tasks :
         LET id == tasks'[t].cam
             set_done == tasks'[t].ret \in {"ok", "invalid_time"}
         IN  /\ (tasks[t].pc = "idle" /\ tasks'[t].op = "sync_camera_time"
                   /\ set_done /\ StreamPresent(id))
                => tasks'[t].pc = "sy_stop" /\ tasks'[t].was
             /\ (tasks[t].pc = "idle" /\ tasks'[t].op = "sync_camera_time"
                   /\ ~StreamPresent(id))
                => /\ tasks'[t].pc = "done"
                   /\ ~tasks'[t].was
                   /\ children' = children
                   /\ processes' = processes
             /\ (tasks'[t].pc = "sy_start" /\ tasks[t].pc # "sy_start")
                => tasks[t].pc = "sy_stop_rec"
             /\ (tasks'[t].pc = "sy_stop_rec" /\ tasks[t].pc # "sy_stop_rec")
                => tasks[t].pc = "sy_stop" /\ processes'[id] = NoChild
             /\ (tasks[t].pc \in {"sy_start", "sy_insert"} /\ tasks'[t].pc = "done"
                   /\ tasks'[t].restart = "ok")
                => tasks[t].was /\ processes'[id] # NoChild]_vars

\* A sync_camera_time of a streaming camera has returned: the child that
\* streamed is reaped and the entry holds the child the call spawned.
C22_Witness ==
    \E t \in Tasks :
       /\ tasks[t].pc = "done"
       /\ tasks[t].op = "sync_camera_time"
       /\ tasks[t].was
       /\ tasks[t].restart = "ok"
       /\ tasks[t].h # NoChild
       /\ processes[tasks[t].cam] = tasks[t].h
       /\ \E h \in Handles : children[h] = Reaped

\* The camera took the request: a success status and the expected body.
C23_Accepted(reply) == reply.status = 200 /\ reply.body = "expected"

\* C23: move_ptz and stop_ptz return success only when the camera accepted
\* the request last sent, and an error when its reply was a timeout, a
\* non-2xx status, a SOAP fault or unparsable.
C23_PtzErrorOnBadReply ==
    \A t \in Tasks :
       (tasks[t].pc = "done" /\ tasks[t].op \in {"move_ptz", "stop_ptz"}
          /\ tasks[t].reply # Idle.reply)
       => (tasks[t].ret = "ok" <=> C23_Accepted(tasks[t].reply))

\* C24: move_ptz, stop_ptz, get_camera_time and sync_camera_time on a camera
\* id without a row, on a camera whose backend tag is not 'onvif' or on one
\* with a null xaddr return an error in their first step, send no request
\* and change neither map nor any row.
C24_RefusedWithoutEffect ==
    [][\A t \in Tasks :
         (/\ tasks[t].pc = "idle"
          /\ tasks'[t].op \in {"move_ptz", "stop_ptz", "get_camera_time",
                               "sync_camera_time"}
          /\ \/ cameras[tasks'[t].cam] = NoCamera
             \/ cameras[tasks'[t].cam].camera_type # "onvif"
             \/ cameras[tasks'[t].cam].xaddr = None)
         => /\ tasks'[t].pc = "done"
            /\ tasks'[t].ret \in {"camera_not_found", "not_onvif", "no_xaddr"}
            /\ requests' = requests
            /\ processes' = processes
            /\ recording_processes' = recording_processes
            /\ children' = children
            /\ recordings' = recordings
            /\ recording_schedules' = recording_schedules
            /\ cameras' = cameras
            /\ settings' = settings]_vars

\* A sync_camera_time of a streaming camera that is no ONVIF camera was
\* refused: nothing was sent and the stream is still there.
C24_Witness ==
    /\ requests = {}
    /\ \E t \in Tasks :
          /\ tasks[t].pc = "done"
          /\ tasks[t].op = "sync_camera_time"
          /\ tasks[t].ret = "not_onvif"
          /\ Running(processes[tasks[t].cam])

\* C25: in every interleaving of init_gpu_encoder_settings with
\* update_encoder_settings, a step of the probe writes gpu_encoder only
\* when it is null, so it never replaces a value that is there, and it
\* changes no other field of the row.
C25_ProbeKeepsUserEncoder ==
    [][probe' # probe
       => /\ settings.gpuEncoder # None => settings' = settings
          /\ settings' = [settings EXCEPT !.gpuEncoder = settings'.gpuEncoder]
          /\ settings'.gpuEncoder \in {settings.gpuEncoder, probe.preferred}]_vars

\* The probe found an encoder and has run its UPDATE after the user's patch
\* had set another one, which the row still holds.
C25_Witness ==
    /\ probe.pc = "done"
    /\ probe.preferred = Some("h264_nvenc")
    /\ settings.gpuEncoder = Some("hevc_qsv")
    /\ \E t \in Tasks :
          /\ etasks[t].op = "update_encoder_settings"
          /\ etasks[t].pc = "done"
          /\ etasks[t].ret = "ok"
          /\ etasks[t].val.gpuEncoder = Some("hevc_qsv")

\* C26: a step of update_encoder_settings that changes the row applies
\* every field of its patch, so that no reader can see a part of a patch
\* and a call that returns an error has changed nothing.
C26_PatchAppliedAtOnce ==
    [][\A t \in Tasks :
         (etasks[t].op = "update_encoder_settings" /\ etasks'[t] # etasks[t]
            /\ settings' # settings)
         => settings' = ApplyAll(settings, etasks[t].patch,
                                 Present(etasks[t].patch))]_vars

\* What C27 says of every state of a scan.
C27_ScanInvariant ==
    LET d == discovery
    IN  /\ Cardinality(d.in_flight) <= CONCURRENCY_LIMIT
        /\ \A j, k \in DOMAIN d.probes : j # k => d.probes[j] # d.probes[k]
        /\ (d.pc = "done" /\ d.ret = "ok")
           => /\ {d.probes[k] : k \in DOMAIN d.probes} = Octets
              /\ Len(d.results) = MaxAddresses
              /\ \A j, k \in DOMAIN d.devices :
                    j # k => d.devices[j].address # d.devices[k].address
              /\ \A k \in DOMAIN d.devices :
                    \E j \in DOMAIN d.results :
                       /\ d.results[j] = Some(d.devices[k])
                       /\ \A i \in 1..(j - 1) :
                             d.results[i] = None
                             \/ d.results[i][1].address # d.devices[k].address
              /\ \A j \in DOMAIN d.results :
                    d.results[j] # None
                    => \E k \in DOMAIN d.devices :
                          d.devices[k].address = d.results[j][1].address

\* C27: discover_devices probes each address once, never has more than
\* CONCURRENCY_LIMIT probes in flight, returns devices of pairwise distinct
\* addresses, each the first reply for its address, and terminates.
C27_DiscoveryScansOnce ==
    []C27_ScanInvariant /\ <>(discovery.pc = "done")

\* A scan has returned two devices after probing every address.
C27_Witness ==
    /\ discovery.pc = "done"
    /\ discovery.ret = "ok"
    /\ Len(discovery.probes) = MaxAddresses
    /\ Len(discovery.devices) = 2

\* C35: a row of recordings is mutated once: a row that has is_finished = 1
\* keeps its filename, thumbnail, end_time and is_finished through every
\* step, or is deleted.
C35_FinishedRowImmutable ==
    [][\A r \in recordings :
         r.is_finished => \/ r \in recordings'
                          \/ \A q \in recordings' : q.id # r.id]_vars

\* C36: when a stop_recording interleaves with the start_recording that
\* follows it on the same camera, the stop_recording, having terminated a
\* child, finalizes or deletes no row but the one written for that child
\* and does not remove the temp file while the newer recording is running.
C36_StopTouchesOwnRecording ==
    [][\A t \in Tasks :
         (/\ tasks[t].op = "stop_recording"
          /\ tasks[t].pc \in {"sp_exists", "sp_remux", "sp_update"}
          /\ tasks[t].h # NoChild
          /\ tasks'[t] # tasks[t])
         => /\ \A r \in recordings :
                  r \notin recordings' => r.child = tasks[t].h
            /\ (/\ TempName(tasks[t].cam) \in files
                /\ TempName(tasks[t].cam) \notin files')
                 => RunningOf("recording", tasks[t].cam) = {}]_vars

\* No start or stop operation is in progress.
Quiescent == \A t \in Tasks : tasks[t].pc = "idle"

\* C37: in every quiescent state a camera has an is_finished=0 row only
\* if the recording map holds a handle for it, and has at most one such
\* row.
C37_UnfinishedRowHasHandle ==
    Quiescent
      => \A c \in Cameras :
            /\ Unfinished(c) # {} => recording_processes[c] # NoChild
            /\ Cardinality(Unfinished(c)) <= 1

\* C38: when a start_stream or start_recording call returns an error, the
\* child it spawned, if any, has been terminated or is stored in one of the
\* two maps.
C38_FailedStartLeavesNoChild ==
    \A t \in Tasks :
       (/\ tasks[t].pc = "done"
        /\ tasks[t].op \in {"start_stream", "start_recording"}
        /\ tasks[t].ret # "ok"
        /\ tasks[t].h # NoChild)
         => \/ ~Running(tasks[t].h)
            \/ \E c \in Cameras :
                  tasks[t].h \in {processes[c], recording_processes[c]}

\* C40: sync_camera_time leaves recordings untouched: no step of the
\* command changes the recording map, a recording child or a row of
\* recordings, also when the camera is streaming and recording.
C40_SyncLeavesRecordings ==
    [][\A t \in Tasks :
         (tasks[t].op = "sync_camera_time" /\ tasks'[t] # tasks[t])
         => /\ recording_processes' = recording_processes
            /\ recordings' = recordings
            /\ \A h \in Handles :
                  children[h].kind = "recording" => children'[h] = children[h]]_vars

\* C31: every entry of the streams map and of the recording map refers to
\* a child that is running; a start_stream that returns on the idempotent
\* path and a start_recording that fails with "already in progress" found
\* the entry of a running child.
C31_MapEntriesAlive ==
    /\ \A c \in Cameras :
          /\ processes[c] # NoChild => Running(processes[c])
          /\ recording_processes[c] # NoChild => Running(recording_processes[c])
    /\ \A t \in Tasks :
          /\ (/\ tasks[t].pc = "done" /\ tasks[t].op = "start_stream"
              /\ tasks[t].ret = "ok" /\ tasks[t].h = NoChild)
               => Running(processes[tasks[t].cam])
          /\ (/\ tasks[t].pc = "done" /\ tasks[t].op = "start_recording"
              /\ tasks[t].ret = "already_recording")
               => Running(recording_processes[tasks[t].cam])

\* With this step the job closure in slot t fails: its start_recording or
\* its stop_recording has returned an error, which the closure prints.
C34_ClosureFails(t) ==
    /\ tasks[t].pc # "done"
    /\ tasks'[t].pc = "done"
    /\ tasks'[t].op = "job"
    /\ tasks'[t].ret # "ok"

C33_JobMatchesRow ==
    \A t \in Tasks :
       (/\ stasks[t].pc = "done"
        /\ stasks[t].op = "update_recording_schedule"
        /\ stasks[t].ret = "ok")
         => \A r \in RowOf(stasks[t].id) :
               r.is_enabled
                 => \E j \in engine :
                       /\ j.guid = job_map[r.id]
                       /\ j.schedule_id = r.id
                       /\ j.cron_expression = r.cron_expression
                       /\ j.duration = r.duration_minutes
                       /\ j.fps = r.fps

\* The calls on a process map.
C32_MapCalls == {"contains_key", "insert", "remove", "keys", "drain"}

\* Thread t owns one of the two process-map mutexes.
C32_HoldsMap(t) == held["processes"] = t \/ held["recording_processes"] = t

\* C32: outside the shutdown drain, a thread that owns the streams mutex
\* or the recording mutex does nothing but a call on the map: it kills
\* and waits for no child, runs no external command and executes no
\* database statement until the guard is dropped.
C32_MapMutexHeldBriefly ==
    \A t \in Tasks :
       (/\ Busy(t)
        /\ threads[t].op # "close_requested"
        /\ C32_HoldsMap(t))
         => NextStep(t).do \in C32_MapCalls \cup {"lock", "unlock"}

\* Thread t asks for mutex m.
C39_Requests(t, m) == Busy(t) /\ NextStep(t) = Lock(m)

\* No thread asks for a process-map mutex while it owns the other, for
\* the scheduler mutex while it owns the job map's, or for a mutex it
\* owns.
C39_LockOrder ==
    \A t \in Tasks :
       /\ \A m \in {"processes", "recording_processes"} :
             C39_Requests(t, m) => ~C32_HoldsMap(t)
       /\ C39_Requests(t, "scheduler")
            => held["scheduler"] # t /\ held["job_map"] # t
       /\ C39_Requests(t, "job_map") => held["job_map"] # t

\* C39: the lock usage is deadlock-free: the process-map mutexes are never
\* nested, the scheduler mutex is taken before the job map's and never
\* after it, and every thread that asks for a mutex gets it.
C39_DeadlockFree ==
    /\ []C39_LockOrder
    /\ \A t \in Tasks, m \in Mutexes :
          C39_Requests(t, m) ~> (held[m] = t)

\* A thread owns the scheduler mutex and, inside it, the job map's, while
\* another thread waits for the scheduler mutex.
C39_Witness ==
    \E t, u \in Tasks :
       /\ t # u
       /\ held["scheduler"] = t
       /\ held["job_map"] = t
       /\ C39_Requests(u, "scheduler")
====
